---------------------------- MODULE Spec2Model ----------------------------
(***************************************************************************)
(* State-machine model of the FreeRTOS container isolation subsystem:      *)
(* the IPC namespace controller (ipc_namespace.c), the PID namespace       *)
(* controller (pid_namespace.c), the cgroup controller (cgroup.c) and the  *)
(* container manager (container.c).                                        *)
(*                                                                         *)
(* Handles are opaque pointers in the source.  Here a namespace or cgroup  *)
(* handle is the 1-based index of its slot in the controller's static      *)
(* array and a task handle is the index of its TCB; NULL is 0.  A slot     *)
(* that is freed and created again therefore yields the same handle, as    *)
(* the same address does in the source.                                    *)
(***************************************************************************)
EXTENDS Integers, Sequences, FiniteSets, TLC

NULL == 0

(***************************************************************************)
(* Bounds of the model.  The first group scales the compile-time table     *)
(* sizes of the source down; the second caps counters that the source      *)
(* lets grow without limit.                                                *)
(***************************************************************************)
MaxTasks == 2               \* task handles (TCB addresses) the heap can return
MaxIpcNamespaces == 3       \* configMAX_IPC_NAMESPACES, root included
MaxIpcObjectsPerNs == 1     \* configMAX_IPC_OBJECTS_PER_NAMESPACE
RegistryObjectsPerNs == 2   \* the same, in the specification of the registry
MaxRegisteringCallers == 1  \* tasks that can be preempted inside a registration
MaxObjects == 1             \* distinct IPC object pointers
MaxObjectId == 2            \* cap on ulNextObjectId
MaxPidNamespaces == 2       \* configMAX_PID_NAMESPACES, root included
MaxVirtualPid == 2          \* configPID_NAMESPACE_MAX_PID
MaxCGroups == 2             \* configMAX_CGROUPS
WindowDuration == 3         \* configCGROUP_CPU_WINDOW_DURATION, in ticks
MaxFiniteQuota == 1         \* largest finite CPU quota a caller asks for
MaxTick == 4                \* cap on the tick count
WordBits == 16              \* width of UBaseType_t in the model
MaxContainerId == 2         \* cap on ulNextContainerID
MaxCallers == 2             \* tasks that call the container manager
MaxTasksPerCGroup == 1      \* map entries per cgroup (8 in xTaskCGroupMap)
MaxTaskHandles == 3         \* task handles an application passes to the cgroup map
MaxMemoryUsed == 3          \* cap on the bytes a cgroup is charged with
MaxHeapObjects == 2         \* addresses the kernel heap gives to new IPC objects
MaxPathChars == 3           \* bytes of a root path and of a caller's path
MaxDirFiles == 2            \* regular files of a container directory to pack
CountBits == 3              \* width of the file counter of an image (8 in uint8_t)
TickBits == 3               \* width of TickType_t in the model

Tasks == 1..MaxTasks
Objects == 1..MaxObjects
ContainerIds == 1..MaxContainerId
Callers == 1..MaxCallers
TaskHandles == 1..MaxTaskHandles
HeapObjects == 1..MaxHeapObjects

Min(S) == CHOOSE x \in S : \A y \in S : x <= y

VARIABLES
    tcb,                    \* task control blocks: the container fields of each TCB
    xIpcNamespaces,         \* ipc_namespace.c: static IpcNamespace_t array
    uxIpcNamespaceBitmap,   \* ipc_namespace.c: uxNamespaceBitmap (set of used slots)
    xIpcObjectEntries,      \* ipc_namespace.c: static IpcObjectEntry_t array
    uxObjectEntryCount,     \* ipc_namespace.c: number of active object entries
    xPidNamespaces,         \* pid_namespace.c: static PidNamespace_t array
    uxPidNamespaceBitmap,   \* pid_namespace.c: uxNamespaceBitmap (set of used slots)
    xCGroups,               \* cgroup.c: static CGroup_t array
    uxCGroupBitmap,         \* cgroup.c: set of used cgroup slots
    xTaskCGroupMap,         \* cgroup.c: the first uxMapCount entries of the map
    xTickCount,             \* the kernel's tick count (xTaskGetTickCount)
    pxContainerList,        \* container.c: the list of containers, head first
    ulNextContainerID,      \* container.c: the id the next container gets
    xContainerMutex,        \* container.c: the caller holding the mutex, or NULL
    pcCaller,               \* where each caller of the manager stands
    xTaskParams,            \* the wrapper's parameter block and position, per task
    xLastCall,              \* the manager call that returned last, and its result
    xVolume,                \* the littlefs volume: the node at each path
    xFsCall,                \* the file-system call that returned last
    tmp_path                \* file_system.c: the static buffer of the path wrappers

kernelVars == <<tcb>>
fsVars == <<xVolume, xFsCall, tmp_path>>
envVars == <<xTickCount, fsVars>>
pidVars == <<xPidNamespaces, uxPidNamespaceBitmap>>
cgVars == <<xCGroups, uxCGroupBitmap, xTaskCGroupMap>>
vars == <<tcb, xIpcNamespaces, uxIpcNamespaceBitmap, xIpcObjectEntries,
          uxObjectEntryCount, xPidNamespaces,
          uxPidNamespaceBitmap, xCGroups, uxCGroupBitmap,
          xTaskCGroupMap, xTickCount, pxContainerList, ulNextContainerID,
          xContainerMutex, pcCaller, xTaskParams, xLastCall, xVolume, xFsCall,
          tmp_path>>
ctVars == <<pxContainerList, ulNextContainerID, xContainerMutex, pcCaller,
            xTaskParams, xLastCall>>
ipcVars == <<xIpcNamespaces, uxIpcNamespaceBitmap, xIpcObjectEntries,
             uxObjectEntryCount>>

(***************************************************************************)
(* Kernel tasks.  The scheduler is outside the repository's sources; the   *)
(* TCB fields it keeps for the controllers are modelled from the data      *)
(* model: a PID-namespace pointer, a virtual PID and an IPC-namespace      *)
(* pointer per task, created with the task.  A task that deletes itself    *)
(* stays "deleted" until the idle task frees its TCB; a TCB deleted by     *)
(* another task is freed at once.                                          *)
(***************************************************************************)
FreshTcb == [state |-> "alive", xPidNamespace |-> NULL, ulVirtualPid |-> 0,
             xIpcNamespace |-> NULL]

\* A TCB that is not in use; what its memory holds is read by no operation.
RetiredTcb(state) == [state |-> state, xPidNamespace |-> NULL, ulVirtualPid |-> 0,
                      xIpcNamespace |-> NULL]

InitTcb == [t \in Tasks |-> RetiredTcb("free")]

FreeTaskHandles == {t \in Tasks : tcb[t].state = "free"}
AliveTasks == {t \in Tasks : tcb[t].state = "alive"}

pvTaskGetIpcNamespace(xTask) == tcb[xTask].xIpcNamespace

\* xTaskSetIpcNamespace stores the handle in the TCB and reports success.
TcbSetIpcNamespace(tcbv, xTask, xNamespace) ==
    [tcbv EXCEPT ![xTask].xIpcNamespace = xNamespace]

(***************************************************************************)
(* IPC namespace controller (ipc_namespace.c).  The name and the numeric   *)
(* id of a namespace, and the type and name of a registry entry, are       *)
(* written once and read by no operation; they are left out.               *)
(***************************************************************************)
IpcSlots == 1..MaxIpcNamespaces
IpcEntryCount == MaxIpcNamespaces * MaxIpcObjectsPerNs

\* The entries of the registry table.
IpcEntryIdx == DOMAIN xIpcObjectEntries

\* configMAX_IPC_OBJECTS_PER_NAMESPACE of the build the table belongs to:
\* the table has configMAX_IPC_NAMESPACES times as many entries.
uxMaxObjectsPerNamespace == Cardinality(IpcEntryIdx) \div MaxIpcNamespaces

\* vIpcNamespaceInit creates the root namespace in the first free slot.
xIpcRootNamespace == 1

InitIpcNamespaces ==
    [s \in IpcSlots |->
        IF s = xIpcRootNamespace
        THEN [ulNextObjectId |-> 1, uxObjectCount |-> 0, xActive |-> TRUE]
        ELSE [ulNextObjectId |-> 0, uxObjectCount |-> 0, xActive |-> FALSE]]

NoIpcObjectEntry == [pvIpcObject |-> NULL, xNamespace |-> NULL, ulObjectId |-> 0]

InitIpcObjectEntries == [ux \in 1..IpcEntryCount |-> NoIpcObjectEntry]

prvFindFreeIpcNamespaceSlot ==
    LET free == IpcSlots \ uxIpcNamespaceBitmap
    IN  IF free = {} THEN NULL ELSE Min(free)

prvFindFreeObjectEntry ==
    LET free == {ux \in IpcEntryIdx : xIpcObjectEntries[ux].pvIpcObject = NULL}
    IN  IF free = {} THEN NULL ELSE Min(free)

prvFindObjectEntry(xNamespace, pvIpcObject) ==
    LET hit == {ux \in IpcEntryIdx :
                    /\ xIpcObjectEntries[ux].xNamespace = xNamespace
                    /\ xIpcObjectEntries[ux].pvIpcObject = pvIpcObject}
    IN  IF hit = {} THEN NULL ELSE Min(hit)

prvInitializeIpcNamespace ==
    [ulNextObjectId |-> 1, uxObjectCount |-> 0, xActive |-> TRUE]

\* The handle xIpcNamespaceCreate returns (NULL when every slot is in use).
xIpcNamespaceCreateRet == prvFindFreeIpcNamespaceSlot

xIpcNamespaceCreate ==
    LET uxSlot == prvFindFreeIpcNamespaceSlot
    IN  IF uxSlot # NULL
        THEN /\ uxIpcNamespaceBitmap' = uxIpcNamespaceBitmap \cup {uxSlot}
             /\ xIpcNamespaces' =
                    [xIpcNamespaces EXCEPT ![uxSlot] = prvInitializeIpcNamespace]
             /\ UNCHANGED <<xIpcObjectEntries, uxObjectEntryCount>>
        ELSE UNCHANGED ipcVars

xIpcNamespaceDeleteRet(xNamespace) ==
    /\ xNamespace # NULL
    /\ xIpcNamespaces[xNamespace].xActive
    /\ xNamespace # xIpcRootNamespace
    /\ xIpcNamespaces[xNamespace].uxObjectCount = 0

xIpcNamespaceDelete(xNamespace) ==
    IF xIpcNamespaceDeleteRet(xNamespace)
    THEN /\ uxIpcNamespaceBitmap' = uxIpcNamespaceBitmap \ {xNamespace}
         /\ xIpcNamespaces' = [xIpcNamespaces EXCEPT ![xNamespace].xActive = FALSE]
         /\ UNCHANGED <<xIpcObjectEntries, uxObjectEntryCount>>
    ELSE UNCHANGED ipcVars

\* The object id ulIpcNamespaceRegisterObject returns (0 on failure).
ulIpcNamespaceRegisterObjectRet(xNamespace, pvIpcObject) ==
    IF \/ xNamespace = NULL
       \/ pvIpcObject = NULL
       \/ ~xIpcNamespaces[xNamespace].xActive
    THEN 0
    ELSE IF xIpcNamespaces[xNamespace].uxObjectCount >= uxMaxObjectsPerNamespace
    THEN 0
    ELSE IF prvFindFreeObjectEntry = NULL
    THEN 0
    ELSE xIpcNamespaces[xNamespace].ulNextObjectId

ulIpcNamespaceRegisterObject(xNamespace, pvIpcObject) ==
    IF ulIpcNamespaceRegisterObjectRet(xNamespace, pvIpcObject) # 0
    THEN LET pxEntry == prvFindFreeObjectEntry
             ulObjectId == xIpcNamespaces[xNamespace].ulNextObjectId
         IN  /\ xIpcObjectEntries' =
                    [xIpcObjectEntries EXCEPT ![pxEntry] =
                        [pvIpcObject |-> pvIpcObject, xNamespace |-> xNamespace,
                         ulObjectId |-> ulObjectId]]
             /\ xIpcNamespaces' =
                    [xIpcNamespaces EXCEPT
                        ![xNamespace].ulNextObjectId = ulObjectId + 1,
                        ![xNamespace].uxObjectCount = @ + 1]
             /\ uxObjectEntryCount' = uxObjectEntryCount + 1
             /\ UNCHANGED uxIpcNamespaceBitmap
    ELSE UNCHANGED ipcVars

xIpcNamespaceUnregisterObjectRet(xNamespace, pvIpcObject) ==
    /\ xNamespace # NULL
    /\ pvIpcObject # NULL
    /\ xIpcNamespaces[xNamespace].xActive
    /\ prvFindObjectEntry(xNamespace, pvIpcObject) # NULL

xIpcNamespaceUnregisterObject(xNamespace, pvIpcObject) ==
    IF xIpcNamespaceUnregisterObjectRet(xNamespace, pvIpcObject)
    THEN LET pxEntry == prvFindObjectEntry(xNamespace, pvIpcObject)
         IN  /\ xIpcObjectEntries' =
                    [xIpcObjectEntries EXCEPT ![pxEntry].pvIpcObject = NULL,
                                              ![pxEntry].xNamespace = NULL]
             /\ xIpcNamespaces' =
                    [xIpcNamespaces EXCEPT ![xNamespace].uxObjectCount = @ - 1]
             /\ uxObjectEntryCount' = uxObjectEntryCount - 1
             /\ UNCHANGED uxIpcNamespaceBitmap
    ELSE UNCHANGED ipcVars

xIpcNamespaceGetTaskNamespace(xTask) == pvTaskGetIpcNamespace(xTask)

\* xIpcNamespaceCheckAccess without the privilege of the root namespace.
xIpcNamespaceCheckAccessNoRoot(xTask, pvIpcObject) ==
    IF pvIpcObject = NULL
    THEN FALSE
    ELSE LET hit == {ux \in IpcEntryIdx :
                        xIpcObjectEntries[ux].pvIpcObject = pvIpcObject}
         IN  IF hit = {}
             THEN TRUE
             ELSE xIpcObjectEntries[Min(hit)].xNamespace =
                      (IF xIpcNamespaceGetTaskNamespace(xTask) = NULL
                       THEN xIpcRootNamespace
                       ELSE xIpcNamespaceGetTaskNamespace(xTask))

\* The first registry entry holding the object decides; an object with no
\* entry is accessible to every task.
xIpcNamespaceCheckAccess(xTask, pvIpcObject) ==
    IF pvIpcObject = NULL
    THEN FALSE
    ELSE LET xTaskNamespace ==
                 IF xIpcNamespaceGetTaskNamespace(xTask) = NULL
                 THEN xIpcRootNamespace
                 ELSE xIpcNamespaceGetTaskNamespace(xTask)
             hit == {ux \in IpcEntryIdx :
                        xIpcObjectEntries[ux].pvIpcObject = pvIpcObject}
         IN  IF hit = {}
             THEN TRUE
             ELSE \/ xIpcObjectEntries[Min(hit)].xNamespace = xTaskNamespace
                  \/ xTaskNamespace = xIpcRootNamespace

(***************************************************************************)
(* Isolated constructors.  The kernel constructor hands over the address   *)
(* of the new object, or NULL when the heap is exhausted; a new object has *)
(* an address no registry entry holds.  xLastCall keeps the handle the     *)
(* constructor returned and the object it gave back to the kernel.         *)
(***************************************************************************)
FreshObjects ==
    {pv \in HeapObjects :
        \A ux \in IpcEntryIdx : xIpcObjectEntries[ux].pvIpcObject # pv}

prvIsolatedNamespace(xTask) ==
    IF xIpcNamespaceGetTaskNamespace(xTask) = NULL
    THEN xIpcRootNamespace
    ELSE xIpcNamespaceGetTaskNamespace(xTask)

IsolatedCall(op, pvReturned, pvDeleted) ==
    [op |-> op, ulContainerID |-> 0, xResult |-> pvReturned # NULL,
     pvReturned |-> pvReturned, pvDeleted |-> pvDeleted]

xQueueCreateIsolatedRet(xTask, xQueue) ==
    IF xQueue # NULL
    THEN IF ulIpcNamespaceRegisterObjectRet(prvIsolatedNamespace(xTask), xQueue) = 0
         THEN NULL
         ELSE xQueue
    ELSE NULL

xQueueCreateIsolatedInRoot(xTask, xQueue) ==
    /\ ulIpcNamespaceRegisterObject(xIpcRootNamespace, xQueue)
    /\ xLastCall' = IsolatedCall("xQueueCreateIsolated", xQueue, NULL)

xQueueCreateIsolated(xTask, xQueue) ==
    IF xQueue # NULL
    THEN LET xNamespace == prvIsolatedNamespace(xTask)
         IN  /\ ulIpcNamespaceRegisterObject(xNamespace, xQueue)
             /\ xLastCall' =
                    IF ulIpcNamespaceRegisterObjectRet(xNamespace, xQueue) = 0
                    THEN IsolatedCall("xQueueCreateIsolated", NULL, xQueue)
                    ELSE IsolatedCall("xQueueCreateIsolated", xQueue, NULL)
    ELSE /\ UNCHANGED ipcVars
         /\ xLastCall' = IsolatedCall("xQueueCreateIsolated", NULL, NULL)

xSemaphoreCreateBinaryIsolatedRet(xTask, xSemaphore) ==
    IF xSemaphore # NULL
    THEN IF ulIpcNamespaceRegisterObjectRet(prvIsolatedNamespace(xTask),
                                            xSemaphore) = 0
         THEN NULL
         ELSE xSemaphore
    ELSE NULL

xSemaphoreCreateBinaryIsolated(xTask, xSemaphore) ==
    IF xSemaphore # NULL
    THEN LET xNamespace == prvIsolatedNamespace(xTask)
         IN  /\ ulIpcNamespaceRegisterObject(xNamespace, xSemaphore)
             /\ xLastCall' =
                    IF ulIpcNamespaceRegisterObjectRet(xNamespace, xSemaphore) = 0
                    THEN IsolatedCall("xSemaphoreCreateBinaryIsolated", NULL,
                                      xSemaphore)
                    ELSE IsolatedCall("xSemaphoreCreateBinaryIsolated",
                                      xSemaphore, NULL)
    ELSE /\ UNCHANGED ipcVars
         /\ xLastCall' = IsolatedCall("xSemaphoreCreateBinaryIsolated", NULL, NULL)

xSemaphoreCreateMutexIsolatedRet(xTask, xMutex) ==
    IF xMutex # NULL
    THEN IF ulIpcNamespaceRegisterObjectRet(prvIsolatedNamespace(xTask), xMutex) = 0
         THEN NULL
         ELSE xMutex
    ELSE NULL

xSemaphoreCreateMutexIsolated(xTask, xMutex) ==
    IF xMutex # NULL
    THEN LET xNamespace == prvIsolatedNamespace(xTask)
         IN  /\ ulIpcNamespaceRegisterObject(xNamespace, xMutex)
             /\ xLastCall' =
                    IF ulIpcNamespaceRegisterObjectRet(xNamespace, xMutex) = 0
                    THEN IsolatedCall("xSemaphoreCreateMutexIsolated", NULL, xMutex)
                    ELSE IsolatedCall("xSemaphoreCreateMutexIsolated", xMutex, NULL)
    ELSE /\ UNCHANGED ipcVars
         /\ xLastCall' = IsolatedCall("xSemaphoreCreateMutexIsolated", NULL, NULL)

(***************************************************************************)
(* PID namespace controller (pid_namespace.c).  Operations that the        *)
(* container manager chains on the same tables take the tables as          *)
(* arguments and return the tables they leave behind.                      *)
(***************************************************************************)
PidSlots == 1..MaxPidNamespaces
VirtualPids == 1..MaxVirtualPid

\* prvPidNamespaceInit creates the root namespace in the first free slot.
xPidRootNamespace == 1

pvTaskGetPidNamespace(tcbv, xTask) == tcbv[xTask].xPidNamespace
uxTaskGetVirtualPid(tcbv, xTask) == tcbv[xTask].ulVirtualPid

\* xTaskSetPidNamespace stores the namespace pointer and the virtual PID in
\* the TCB and reports success.
xTaskSetPidNamespace(tcbv, xTask, xNamespace, ulVirtualPid) ==
    [tcbv EXCEPT ![xTask].xPidNamespace = xNamespace,
                 ![xTask].ulVirtualPid = ulVirtualPid]

prvInitializePidNamespace ==
    [ulNextPid |-> 1, ulMaxPid |-> MaxVirtualPid,
     uxTaskCount |-> 0, xActive |-> TRUE,
     xTasks |-> [i \in VirtualPids |-> NULL]]

InitPidNamespaces ==
    [s \in PidSlots |->
        IF s = xPidRootNamespace
        THEN prvInitializePidNamespace
        ELSE [ulNextPid |-> 0, ulMaxPid |-> 0,
              uxTaskCount |-> 0, xActive |-> FALSE,
              xTasks |-> [i \in VirtualPids |-> NULL]]]

prvFindFreePidNamespaceSlot ==
    LET free == PidSlots \ uxPidNamespaceBitmap
    IN  IF free = {} THEN NULL ELSE Min(free)

\* 0 when the namespace has handed out its last virtual PID.
\* An allocator that hands out the lowest PID above the number of tasks
\* in the namespace, so that the PID of a removed task comes back.
prvAllocateVirtualPidRecycled(pxNamespace) ==
    IF pxNamespace.uxTaskCount >= pxNamespace.ulMaxPid
    THEN 0
    ELSE pxNamespace.uxTaskCount + 1

prvAllocateVirtualPid(pxNamespace) ==
    IF pxNamespace.ulNextPid > pxNamespace.ulMaxPid THEN 0 ELSE pxNamespace.ulNextPid

\* The handle xPidNamespaceCreate returns (NULL when every slot is in use).
xPidNamespaceCreateRet == prvFindFreePidNamespaceSlot

xPidNamespaceCreate ==
    LET uxSlot == prvFindFreePidNamespaceSlot
    IN  IF uxSlot # NULL
        THEN /\ xPidNamespaces' =
                    [xPidNamespaces EXCEPT ![uxSlot] = prvInitializePidNamespace]
             /\ uxPidNamespaceBitmap' = uxPidNamespaceBitmap \cup {uxSlot}
        ELSE UNCHANGED pidVars

xPidNamespaceDeleteRet(pidv, xNamespace) ==
    /\ xNamespace # NULL
    /\ pidv[xNamespace].xActive
    /\ pidv[xNamespace].uxTaskCount = 0

xPidNamespaceDelete(xNamespace) ==
    IF xPidNamespaceDeleteRet(xPidNamespaces, xNamespace)
    THEN /\ xPidNamespaces' = [xPidNamespaces EXCEPT ![xNamespace].xActive = FALSE]
         /\ uxPidNamespaceBitmap' = uxPidNamespaceBitmap \ {xNamespace}
    ELSE UNCHANGED pidVars

\* xPidNamespaceAddTask: [ret, pid, tcb] is the result and the tables after it.
xPidNamespaceAddTask(pidv, tcbv, xNamespace, xTask) ==
    IF \/ xNamespace = NULL
       \/ xTask = NULL
       \/ ~pidv[xNamespace].xActive
    THEN [ret |-> FALSE, pid |-> pidv, tcb |-> tcbv]
    ELSE IF pvTaskGetPidNamespace(tcbv, xTask) # NULL
    THEN [ret |-> FALSE, pid |-> pidv, tcb |-> tcbv]
    ELSE LET ulVirtualPid == prvAllocateVirtualPid(pidv[xNamespace])
         IN  IF ulVirtualPid # 0
             THEN [ret |-> TRUE,
                   pid |-> [pidv EXCEPT ![xNamespace].ulNextPid = @ + 1,
                                        ![xNamespace].uxTaskCount = @ + 1],
                   tcb |-> xTaskSetPidNamespace(tcbv, xTask, xNamespace, ulVirtualPid)]
             ELSE [ret |-> FALSE, pid |-> pidv, tcb |-> tcbv]

xPidNamespaceRemoveTask(pidv, tcbv, xNamespace, xTask) ==
    IF xNamespace = NULL \/ xTask = NULL
    THEN [ret |-> FALSE, pid |-> pidv, tcb |-> tcbv]
    ELSE IF pvTaskGetPidNamespace(tcbv, xTask) = xNamespace
    THEN [ret |-> TRUE,
          pid |-> [pidv EXCEPT ![xNamespace].uxTaskCount =
                                    IF @ > 0 THEN @ - 1 ELSE @],
          tcb |-> xTaskSetPidNamespace(tcbv, xTask, NULL, 0)]
    ELSE [ret |-> FALSE, pid |-> pidv, tcb |-> tcbv]

\* A lookup that scans every task and ignores the namespace it is asked about.
xPidNamespaceFindTaskAnywhere(xNamespace, ulVirtualPid) ==
    LET hit == {t \in Tasks : /\ tcb[t].state = "alive"
                              /\ tcb[t].xPidNamespace # NULL
                              /\ tcb[t].ulVirtualPid = ulVirtualPid}
    IN  IF xNamespace = NULL \/ hit = {} THEN NULL ELSE Min(hit)

\* The scan reads the namespace's own xTasks array, and the virtual PID of
\* each task found there from its TCB.
xPidNamespaceFindTaskByVirtualPid(xNamespace, ulVirtualPid) ==
    IF \/ xNamespace = NULL
       \/ ~xPidNamespaces[xNamespace].xActive
       \/ ulVirtualPid = 0
    THEN NULL
    ELSE LET hit == {i \in VirtualPids :
                        /\ xPidNamespaces[xNamespace].xTasks[i] # NULL
                        /\ uxTaskGetVirtualPid(tcb, xPidNamespaces[xNamespace].xTasks[i])
                               = ulVirtualPid}
         IN  IF hit = {} THEN NULL ELSE xPidNamespaces[xNamespace].xTasks[Min(hit)]

xPidNamespaceGetTaskNamespace(xTask) ==
    IF xTask = NULL THEN NULL ELSE pvTaskGetPidNamespace(tcb, xTask)

prvPidNamespaceTaskDelete(pidv, tcbv, xTask) ==
    IF xTask # NULL /\ pvTaskGetPidNamespace(tcbv, xTask) # NULL
    THEN xPidNamespaceRemoveTask(pidv, tcbv, pvTaskGetPidNamespace(tcbv, xTask), xTask)
    ELSE [ret |-> FALSE, pid |-> pidv, tcb |-> tcbv]

(***************************************************************************)
(* Task creation and deletion as the controllers see them.  xTaskCreate    *)
(* may return any free TCB address; vTaskDelete runs the PID-namespace     *)
(* and IPC-namespace task-delete callbacks (the latter does nothing) and   *)
(* then retires the TCB.                                                   *)
(***************************************************************************)
xTaskCreate(tcbv, xNewTask) == [tcbv EXCEPT ![xNewTask] = FreshTcb]

\* byOther: the TCB is freed at once; otherwise the task deleted itself and
\* the TCB waits for the idle task.
vTaskDelete(pidv, tcbv, xTask, byOther) ==
    LET r == prvPidNamespaceTaskDelete(pidv, tcbv, xTask)
    IN  [pid |-> r.pid,
         tcb |-> [r.tcb EXCEPT ![xTask] =
                     RetiredTcb(IF byOther THEN "free" ELSE "deleted")]]

\* xTaskCreateInNamespace on a fresh TCB: the task is created, then bound;
\* when binding fails the task is left alive (its deletion is commented out
\* in the source) and the handle reported is NULL.
xTaskCreateInNamespace(pidv, tcbv, xNamespace, xNewTask) ==
    IF xNamespace = NULL
    THEN [ret |-> FALSE, handle |-> NULL, pid |-> pidv, tcb |-> tcbv]
    ELSE LET r == xPidNamespaceAddTask(pidv, xTaskCreate(tcbv, xNewTask),
                                       xNamespace, xNewTask)
         IN  [ret |-> r.ret,
              handle |-> IF r.ret THEN xNewTask ELSE NULL,
              pid |-> r.pid, tcb |-> r.tcb]

(***************************************************************************)
(* CGroup controller (cgroup.c).                                           *)
(***************************************************************************)
CGroupSlots == 1..MaxCGroups
WordModulus == 2 ^ WordBits
TickModulus == 2 ^ TickBits
CGROUP_NO_LIMIT == WordModulus - 1
CGROUP_CPU_QUOTA_MAX == 1000

\* The CPU quotas and memory limits callers pass in.
CpuQuotas == (0..MaxFiniteQuota) \cup {CGROUP_CPU_QUOTA_MAX, CGROUP_NO_LIMIT}
MemoryLimits == {CGROUP_NO_LIMIT}

InitCGroups ==
    [s \in CGroupSlots |->
        [ulMemoryLimit |-> 0, ulMemoryUsed |-> 0, ulMemoryPeak |-> 0,
         ulCpuQuota |-> 0, ulTicksUsed |-> 0, ulTicksQuota |-> 0,
         ulPenaltyTicksLeft |-> 0, xWindowStartTime |-> 0, xWindowDuration |-> 0,
         uxTaskCount |-> 0, xActive |-> FALSE]]

uxMapCount == Len(xTaskCGroupMap)

prvFindFreeCGroupSlot ==
    LET free == CGroupSlots \ uxCGroupBitmap
    IN  IF free = {} THEN NULL ELSE Min(free)

\* The cgroup of the first map entry holding the task, NULL when none does.
prvGetCGroupFromTask(xTask) ==
    IF xTask = NULL
    THEN NULL
    ELSE LET hit == {ux \in 1..uxMapCount : xTaskCGroupMap[ux].xTask = xTask}
         IN  IF hit = {} THEN NULL ELSE xTaskCGroupMap[Min(hit)].xCGroup

\* The size of xTaskCGroupMap.
uxMapCapacity == MaxCGroups * MaxTasksPerCGroup

\* prvAddTaskToMap without the test for a full map.
prvAddTaskToMapRetNoCapacity(xTask) == prvGetCGroupFromTask(xTask) = NULL

prvAddTaskToMapRet(xTask) ==
    /\ uxMapCount < uxMapCapacity
    /\ prvGetCGroupFromTask(xTask) = NULL

prvAddTaskToMap(xTask, xCGroup) ==
    Append(xTaskCGroupMap, [xTask |-> xTask, xCGroup |-> xCGroup])

\* The last entry moves into the gap left by the first entry of the task.
prvRemoveTaskFromMap(xTask) ==
    LET hit == {ux \in 1..uxMapCount : xTaskCGroupMap[ux].xTask = xTask}
        ux == Min(hit)
        moved == IF ux < uxMapCount
                 THEN [xTaskCGroupMap EXCEPT ![ux] = xTaskCGroupMap[uxMapCount]]
                 ELSE xTaskCGroupMap
    IN  IF hit = {} THEN xTaskCGroupMap ELSE SubSeq(moved, 1, uxMapCount - 1)

\* The quotients a division by a zero quota can leave behind.
DivisionByZeroResults == {0, CGROUP_NO_LIMIT}

prvCalculatePenaltyDivides(pxCGroup) ==
    /\ pxCGroup.ulTicksQuota # CGROUP_NO_LIMIT
    /\ pxCGroup.ulTicksUsed > pxCGroup.ulTicksQuota

\* prvCalculatePenalty that adds the excess itself.
prvCalculatePenaltyUnscaled(pxCGroup, d) ==
    IF prvCalculatePenaltyDivides(pxCGroup)
    THEN (pxCGroup.ulPenaltyTicksLeft
              + (pxCGroup.ulTicksUsed - pxCGroup.ulTicksQuota)) % WordModulus
    ELSE pxCGroup.ulPenaltyTicksLeft

\* The penalty after the window that ends; d is the quotient a division by
\* zero yields.
prvCalculatePenalty(pxCGroup, d) ==
    IF prvCalculatePenaltyDivides(pxCGroup)
    THEN LET ulExcess == pxCGroup.ulTicksUsed - pxCGroup.ulTicksQuota
             q == IF pxCGroup.ulTicksQuota = 0
                  THEN d
                  ELSE ((ulExcess * WindowDuration) % WordModulus)
                           \div pxCGroup.ulTicksQuota
         IN  (pxCGroup.ulPenaltyTicksLeft + q) % WordModulus
    ELSE pxCGroup.ulPenaltyTicksLeft

\* The elapsed time is a difference of TickType_t values.
prvWindowElapsed(pxCGroup, xCurrentTime) ==
    ((xCurrentTime - pxCGroup.xWindowStartTime) % TickModulus) >= pxCGroup.xWindowDuration

\* prvUpdateCpuWindow that starts the new window without clearing ulTicksUsed.
prvUpdateCpuWindowKeepsTicks(pxCGroup, xCurrentTime, d) ==
    IF prvWindowElapsed(pxCGroup, xCurrentTime)
    THEN LET p == prvCalculatePenalty(pxCGroup, d)
         IN  [pxCGroup EXCEPT !.xWindowStartTime = xCurrentTime,
                              !.ulPenaltyTicksLeft = IF p > 1 THEN p - 1 ELSE 0]
    ELSE pxCGroup

prvUpdateCpuWindow(pxCGroup, xCurrentTime, d) ==
    IF prvWindowElapsed(pxCGroup, xCurrentTime)
    THEN LET p == prvCalculatePenalty(pxCGroup, d)
         IN  [pxCGroup EXCEPT !.xWindowStartTime = xCurrentTime,
                              !.ulTicksUsed = 0,
                              !.ulPenaltyTicksLeft = IF p > 1 THEN p - 1 ELSE 0]
    ELSE pxCGroup

\* The handle xCGroupCreate returns (NULL when every slot is in use).
xCGroupCreateRet == prvFindFreeCGroupSlot

xCGroupCreate(ulMemoryLimit, ulCpuQuota) ==
    LET xIndex == prvFindFreeCGroupSlot
    IN  IF xIndex # NULL
        THEN /\ uxCGroupBitmap' = uxCGroupBitmap \cup {xIndex}
             /\ xCGroups' = [xCGroups EXCEPT ![xIndex] =
                    [ulMemoryLimit |-> ulMemoryLimit, ulMemoryUsed |-> 0,
                     ulMemoryPeak |-> 0, ulCpuQuota |-> ulCpuQuota,
                     ulTicksUsed |-> 0,
                     ulTicksQuota |-> IF ulCpuQuota = CGROUP_CPU_QUOTA_MAX
                                      THEN CGROUP_NO_LIMIT ELSE ulCpuQuota,
                     ulPenaltyTicksLeft |-> 0, xWindowStartTime |-> xTickCount,
                     xWindowDuration |-> WindowDuration,
                     uxTaskCount |-> 0, xActive |-> TRUE]]
             /\ UNCHANGED xTaskCGroupMap
        ELSE UNCHANGED cgVars

xCGroupDeleteRet(xCGroup) ==
    /\ xCGroup # NULL
    /\ xCGroups[xCGroup].uxTaskCount = 0

\* xCGroupDelete without the test for tasks still in the group.
xCGroupDeleteNonEmpty(xCGroup) ==
    IF xCGroup # NULL
    THEN /\ xCGroups' = [xCGroups EXCEPT ![xCGroup].xActive = FALSE]
         /\ uxCGroupBitmap' = uxCGroupBitmap \ {xCGroup}
         /\ UNCHANGED xTaskCGroupMap
    ELSE UNCHANGED cgVars

xCGroupDelete(xCGroup) ==
    IF xCGroupDeleteRet(xCGroup)
    THEN /\ xCGroups' = [xCGroups EXCEPT ![xCGroup].xActive = FALSE]
         /\ uxCGroupBitmap' = uxCGroupBitmap \ {xCGroup}
         /\ UNCHANGED xTaskCGroupMap
    ELSE UNCHANGED cgVars

xCGroupAddTaskRet(xCGroup, xTask) ==
    /\ xCGroup # NULL
    /\ xTask # NULL
    /\ xCGroups[xCGroup].xActive
    /\ prvAddTaskToMapRet(xTask)

xCGroupAddTask(xCGroup, xTask) ==
    IF xCGroupAddTaskRet(xCGroup, xTask)
    THEN /\ xTaskCGroupMap' = prvAddTaskToMap(xTask, xCGroup)
         /\ xCGroups' = [xCGroups EXCEPT ![xCGroup].uxTaskCount = @ + 1]
         /\ UNCHANGED uxCGroupBitmap
    ELSE UNCHANGED cgVars

xCGroupRemoveTaskRet(xCGroup, xTask) ==
    /\ xCGroup # NULL
    /\ xTask # NULL
    /\ prvGetCGroupFromTask(xTask) = xCGroup

xCGroupRemoveTask(xCGroup, xTask) ==
    IF xCGroupRemoveTaskRet(xCGroup, xTask)
    THEN /\ xTaskCGroupMap' = prvRemoveTaskFromMap(xTask)
         /\ xCGroups' = [xCGroups EXCEPT ![xCGroup].uxTaskCount =
                                            (@ - 1) % WordModulus]
         /\ UNCHANGED uxCGroupBitmap
    ELSE UNCHANGED cgVars

\* xCGroupGetStats rolls the window of the cgroup before it copies the fields.
xCGroupGetStats(xCGroup, d) ==
    IF xCGroup # NULL /\ xCGroups[xCGroup].xActive
    THEN /\ xCGroups' = [xCGroups EXCEPT ![xCGroup] =
                            prvUpdateCpuWindow(xCGroups[xCGroup], xTickCount, d)]
         /\ UNCHANGED <<uxCGroupBitmap, xTaskCGroupMap>>
    ELSE UNCHANGED cgVars

xCGroupSetCpuQuotaRet(xCGroup, ulCpuQuota) ==
    /\ xCGroup # NULL
    /\ xCGroups[xCGroup].xActive
    /\ ulCpuQuota <= CGROUP_CPU_QUOTA_MAX

xCGroupSetCpuQuota(xCGroup, ulCpuQuota) ==
    IF xCGroupSetCpuQuotaRet(xCGroup, ulCpuQuota)
    THEN /\ xCGroups' = [xCGroups EXCEPT
                ![xCGroup].ulCpuQuota = ulCpuQuota,
                ![xCGroup].ulTicksQuota = IF ulCpuQuota = CGROUP_CPU_QUOTA_MAX
                                          THEN CGROUP_NO_LIMIT ELSE ulCpuQuota]
         /\ UNCHANGED <<uxCGroupBitmap, xTaskCGroupMap>>
    ELSE UNCHANGED cgVars

xCGroupGetTaskGroup(xTask) == prvGetCGroupFromTask(xTask)

\* Memory accounting.  ulSize is a UBaseType_t, lMemoryDelta a BaseType_t
\* (signed, two's complement); sums and differences of UBaseType_t values
\* are taken modulo the word.
lMemoryDeltaMin == -(WordModulus \div 2)

MemorySizes == (0..MaxMemoryUsed) \cup {WordModulus - 2, WordModulus - 1}
MemoryDeltas ==
    {lMemoryDeltaMin} \cup ((-MaxMemoryUsed)..(-2)) \cup (0..MaxMemoryUsed)
FiniteMemoryLimits == {MaxMemoryUsed - 1}

xCGroupCheckMemoryLimit(xTask, ulSize) ==
    IF xTask = NULL
    THEN TRUE
    ELSE IF prvGetCGroupFromTask(xTask) = NULL
    THEN TRUE
    ELSE LET pxCGroup == xCGroups[prvGetCGroupFromTask(xTask)]
             ulNewUsage == (pxCGroup.ulMemoryUsed + ulSize) % WordModulus
         IN  IF pxCGroup.ulMemoryLimit = CGROUP_NO_LIMIT
             THEN TRUE
             ELSE ulNewUsage <= pxCGroup.ulMemoryLimit

\* xCGroupUpdateMemoryUsage with a release that is subtracted as it comes.
xCGroupUpdateMemoryUsageUnclamped(xTask, lMemoryDelta) ==
    IF xTask = NULL
    THEN UNCHANGED cgVars
    ELSE IF prvGetCGroupFromTask(xTask) = NULL
    THEN UNCHANGED cgVars
    ELSE LET xCGroup == prvGetCGroupFromTask(xTask)
             ulNew == (xCGroups[xCGroup].ulMemoryUsed + lMemoryDelta) % WordModulus
         IN  /\ xCGroups' = [xCGroups EXCEPT
                    ![xCGroup].ulMemoryUsed = ulNew,
                    ![xCGroup].ulMemoryPeak = IF lMemoryDelta > 0 /\ ulNew > @
                                              THEN ulNew ELSE @]
             /\ UNCHANGED <<uxCGroupBitmap, xTaskCGroupMap>>

\* xCGroupUpdateMemoryUsage; it returns pdPASS on every path.  The cast
\* (UBaseType_t)(-lMemoryDelta) is the two's complement negation: for the
\* lowest delta the negate instruction gives the delta back, which reads
\* as half the word range.
xCGroupUpdateMemoryUsage(xTask, lMemoryDelta) ==
    IF xTask = NULL
    THEN UNCHANGED cgVars
    ELSE IF prvGetCGroupFromTask(xTask) = NULL
    THEN UNCHANGED cgVars
    ELSE LET xCGroup == prvGetCGroupFromTask(xTask)
             ulUsed == xCGroups[xCGroup].ulMemoryUsed
             ulDealloc == (-lMemoryDelta) % WordModulus
             ulNew == IF lMemoryDelta > 0
                      THEN (ulUsed + lMemoryDelta) % WordModulus
                      ELSE IF ulDealloc > ulUsed THEN 0 ELSE ulUsed - ulDealloc
         IN  /\ xCGroups' = [xCGroups EXCEPT
                    ![xCGroup].ulMemoryUsed = ulNew,
                    ![xCGroup].ulMemoryPeak = IF lMemoryDelta > 0 /\ ulNew > @
                                              THEN ulNew ELSE @]
             /\ UNCHANGED <<uxCGroupBitmap, xTaskCGroupMap>>

\* prvCGroupCanTaskRun admitting a task whose cgroup has used its quota up.
prvCGroupCanTaskRunAtQuota(xTask) ==
    LET pxCGroup == prvGetCGroupFromTask(xTask)
    IN  IF pxCGroup = NULL
        THEN TRUE
        ELSE IF xCGroups[pxCGroup].ulPenaltyTicksLeft > 0
        THEN FALSE
        ELSE IF /\ xCGroups[pxCGroup].ulTicksQuota # CGROUP_NO_LIMIT
                /\ xCGroups[pxCGroup].ulTicksUsed > xCGroups[pxCGroup].ulTicksQuota
        THEN FALSE
        ELSE TRUE

\* prvCGroupCanTaskRun without the penalty check.
prvCGroupCanTaskRunNoPenalty(xTask) ==
    LET pxCGroup == prvGetCGroupFromTask(xTask)
    IN  IF pxCGroup = NULL
        THEN TRUE
        ELSE IF /\ xCGroups[pxCGroup].ulTicksQuota # CGROUP_NO_LIMIT
                /\ xCGroups[pxCGroup].ulTicksUsed >= xCGroups[pxCGroup].ulTicksQuota
        THEN FALSE
        ELSE TRUE

prvCGroupCanTaskRun(xTask) ==
    IF xTask = NULL
    THEN TRUE
    ELSE LET pxCGroup == prvGetCGroupFromTask(xTask)
         IN  IF pxCGroup = NULL
             THEN TRUE
             ELSE IF xCGroups[pxCGroup].ulPenaltyTicksLeft > 0
             THEN FALSE
             ELSE IF /\ xCGroups[pxCGroup].ulTicksQuota # CGROUP_NO_LIMIT
                     /\ xCGroups[pxCGroup].ulTicksUsed >= xCGroups[pxCGroup].ulTicksQuota
             THEN FALSE
             ELSE TRUE

\* One cgroup's part of the tick hook, after the running task was charged:
\* the window is rolled when it has elapsed, then a pending penalty is
\* reduced by one.
prvTickOneCGroup(pxCGroup, xCurrentTime, d) ==
    LET w == prvUpdateCpuWindow(pxCGroup, xCurrentTime, d)
    IN  IF w.ulPenaltyTicksLeft > 0
        THEN [w EXCEPT !.ulPenaltyTicksLeft = @ - 1]
        ELSE w

\* The tick hook looking only at the cgroup of the running task.
prvCGroupUpdateTickCurrentOnly(xCurrentTask, xCurrentTime, d) ==
    LET pxCurrentTaskCGroup == prvGetCGroupFromTask(xCurrentTask)
    IN  IF pxCurrentTaskCGroup # NULL /\ xCGroups[pxCurrentTaskCGroup].xActive
        THEN [xCGroups EXCEPT ![pxCurrentTaskCGroup] =
                 prvTickOneCGroup([@ EXCEPT !.ulTicksUsed = (@ + 1) % WordModulus],
                                  xCurrentTime, d)]
        ELSE xCGroups

\* The tick hook, called with the task that is running at the tick; the
\* tick count it reads is the one already advanced by the kernel.
prvCGroupUpdateTick(xCurrentTask, xCurrentTime, d) ==
    LET pxCurrentTaskCGroup == prvGetCGroupFromTask(xCurrentTask)
        charged == IF pxCurrentTaskCGroup # NULL
                   THEN [xCGroups EXCEPT ![pxCurrentTaskCGroup].ulTicksUsed =
                                            (@ + 1) % WordModulus]
                   ELSE xCGroups
    IN  [xIndex \in CGroupSlots |->
            IF xIndex \in uxCGroupBitmap /\ charged[xIndex].xActive
            THEN prvTickOneCGroup(charged[xIndex], xCurrentTime, d)
            ELSE charged[xIndex]]

(***************************************************************************)
(* Container manager (container.c).  A container is a record of the list   *)
(* pxContainerList; the name, the stack size, the priority and the paths   *)
(* of a container steer no operation modelled here and are left out.       *)
(* xReadySemaphore is TRUE while the field holds a semaphore.  The callers *)
(* of the manager are tasks outside Tasks; xContainerMutex is not          *)
(* recursive (xSemaphoreCreateMutex) and every take waits without limit.   *)
(***************************************************************************)
containerDefaultMemoryLimit == 8192
containerDefaultCpuQuota == 100

\* The limits callers pass to xContainerCreateWithLimits (0: use the default).
ContainerMemoryLimits == {0}
ContainerCpuQuotas == {0}

IdleCaller == [pc |-> "idle", ulContainerID |-> 0]
NoTaskParams == [pc |-> "none", pxContainer |-> 0, xFreed |-> FALSE]

ContainerIndices == 1..Len(pxContainerList)

\* The position in the list of the first container with the id, NULL if none.
pxContainerGetByID(ulContainerID) ==
    LET hit == {i \in ContainerIndices :
                    pxContainerList[i].ulContainerID = ulContainerID}
    IN  IF hit = {} THEN NULL ELSE Min(hit)

RemoveAt(list, i) == SubSeq(list, 1, i - 1) \o SubSeq(list, i + 1, Len(list))

\* xContainerCreateWithLimits.  The three resources are created before the
\* mutex is asked for, and a NULL handle is kept as it is; a caller that
\* finds the mutex held waits with the container it built.  pcAfter is the
\* position of the caller when the call has returned.
xContainerCreateWithLimitsThen(xCaller, ulMemoryLimit, ulCpuQuota, pcAfter) ==
    LET ulMemLimit == IF ulMemoryLimit > 0 THEN ulMemoryLimit
                      ELSE containerDefaultMemoryLimit
        ulCpuLimit == IF ulCpuQuota > 0 THEN ulCpuQuota
                      ELSE containerDefaultCpuQuota
        pxNewContainer ==
            [ulContainerID |-> ulNextContainerID,
             eState |-> "STOPPED",
             xTaskHandle |-> NULL,
             xCGroup |-> xCGroupCreateRet,
             xPidNamespace |-> xPidNamespaceCreateRet,
             xIpcNamespace |-> xIpcNamespaceCreateRet,
             xReadySemaphore |-> FALSE]
    IN  /\ ulNextContainerID' = ulNextContainerID + 1
        /\ xCGroupCreate(ulMemLimit, ulCpuLimit)
        /\ xPidNamespaceCreate
        /\ xIpcNamespaceCreate
        /\ IF xContainerMutex = NULL
           THEN /\ pxContainerList' = <<pxNewContainer>> \o pxContainerList
                /\ xLastCall' = [op |-> "Create",
                                 ulContainerID |-> pxNewContainer.ulContainerID,
                                 xResult |-> TRUE]
                /\ pcCaller' = [pcCaller EXCEPT ![xCaller] =
                                   [pc |-> pcAfter, ulContainerID |-> 0]]
           ELSE /\ pcCaller' = [pcCaller EXCEPT ![xCaller] =
                                   [pc |-> "createWait",
                                    ulContainerID |-> pxNewContainer.ulContainerID]]
                /\ UNCHANGED <<pxContainerList, xLastCall>>
        /\ UNCHANGED <<xContainerMutex, xTaskParams, kernelVars, envVars>>

xContainerCreateWithLimits(xCaller, ulMemoryLimit, ulCpuQuota) ==
    xContainerCreateWithLimitsThen(xCaller, ulMemoryLimit, ulCpuQuota, "idle")

\* What xContainerStart returns: pdPASS when the task was created, bound to
\* the PID namespace (when the container has one) and joined to the cgroup
\* (when it has one).  xNewTask is the TCB the kernel hands out, NULL when
\* it has no memory for one.
xContainerStartRet(ulContainerID, xNewTask) ==
    LET i == pxContainerGetByID(ulContainerID)
    IN  IF i = NULL
        THEN FALSE
        ELSE IF pxContainerList[i].eState # "STOPPED" \/ xNewTask = NULL
        THEN FALSE
        ELSE LET r == IF pxContainerList[i].xPidNamespace # NULL
                      THEN xTaskCreateInNamespace(xPidNamespaces, tcb,
                               pxContainerList[i].xPidNamespace, xNewTask)
                      ELSE [ret |-> TRUE, handle |-> xNewTask,
                            pid |-> xPidNamespaces,
                            tcb |-> xTaskCreate(tcb, xNewTask)]
             IN  /\ r.ret
                 /\ \/ pxContainerList[i].xCGroup = NULL
                    \/ xCGroupAddTaskRet(pxContainerList[i].xCGroup, r.handle)

xContainerStart(ulContainerID, xNewTask) ==
    LET i == pxContainerGetByID(ulContainerID)
        xResult == xContainerStartRet(ulContainerID, xNewTask)
    IN  /\ xContainerMutex = NULL
        /\ xLastCall' = [op |-> "Start", ulContainerID |-> ulContainerID,
                         xResult |-> xResult]
        /\ UNCHANGED <<xContainerMutex, pcCaller, ulNextContainerID,
                       uxPidNamespaceBitmap, ipcVars, envVars>>
        /\ IF i = NULL
           THEN UNCHANGED <<pxContainerList, xTaskParams, tcb, xPidNamespaces, cgVars>>
           ELSE IF pxContainerList[i].eState # "STOPPED"
           THEN UNCHANGED <<pxContainerList, xTaskParams, tcb, xPidNamespaces, cgVars>>
           ELSE IF xNewTask = NULL
           THEN \* the task could not be created: the semaphore is deleted again
                /\ pxContainerList' =
                       [pxContainerList EXCEPT ![i].xReadySemaphore = FALSE]
                /\ UNCHANGED <<xTaskParams, tcb, xPidNamespaces, cgVars>>
           ELSE LET pxContainer == pxContainerList[i]
                    r == IF pxContainer.xPidNamespace # NULL
                         THEN xTaskCreateInNamespace(xPidNamespaces, tcb,
                                  pxContainer.xPidNamespace, xNewTask)
                         ELSE [ret |-> TRUE, handle |-> xNewTask,
                               pid |-> xPidNamespaces,
                               tcb |-> xTaskCreate(tcb, xNewTask)]
                IN  IF ~r.ret
                    THEN \* the task exists but is not bound: its parameter
                         \* block is freed under it
                         /\ pxContainerList' =
                                [pxContainerList EXCEPT
                                    ![i].xTaskHandle = r.handle,
                                    ![i].xReadySemaphore = FALSE]
                         /\ tcb' = r.tcb
                         /\ xPidNamespaces' = r.pid
                         /\ xTaskParams' = [xTaskParams EXCEPT ![xNewTask] =
                                [pc |-> "wrapper", pxContainer |-> ulContainerID,
                                 xFreed |-> TRUE]]
                         /\ UNCHANGED cgVars
                    ELSE IF /\ pxContainer.xCGroup # NULL
                            /\ ~xCGroupAddTaskRet(pxContainer.xCGroup, r.handle)
                    THEN LET d == vTaskDelete(r.pid, r.tcb, r.handle, TRUE)
                         IN  /\ pxContainerList' =
                                    [pxContainerList EXCEPT
                                        ![i].eState = "ERROR",
                                        ![i].xTaskHandle = NULL,
                                        ![i].xReadySemaphore = FALSE]
                             /\ tcb' = d.tcb
                             /\ xPidNamespaces' = d.pid
                             /\ UNCHANGED <<xTaskParams, cgVars>>
                    ELSE /\ IF pxContainer.xCGroup # NULL
                            THEN xCGroupAddTask(pxContainer.xCGroup, r.handle)
                            ELSE UNCHANGED cgVars
                         /\ pxContainerList' =
                                [pxContainerList EXCEPT
                                    ![i].eState = "RUNNING",
                                    ![i].xTaskHandle = r.handle,
                                    ![i].xReadySemaphore = TRUE]
                         /\ tcb' = r.tcb
                         /\ xPidNamespaces' = r.pid
                         /\ xTaskParams' = [xTaskParams EXCEPT ![xNewTask] =
                                [pc |-> "wrapper", pxContainer |-> ulContainerID,
                                 xFreed |-> FALSE]]

\* vTaskDelete through a handle the manager kept.  A live task is deleted
\* and its TCB freed.  The handle of a task that has deleted itself points
\* to a TCB that is waiting for the idle task or is already freed; deleting
\* it again is undefined, and leaves the TCB as it is or freed.
vTaskDeleteByHandle(pidv, tcbv, xTask, xFrees) ==
    IF tcbv[xTask].state = "alive"
    THEN vTaskDelete(pidv, tcbv, xTask, TRUE)
    ELSE [pid |-> pidv,
          tcb |-> IF xFrees THEN [tcbv EXCEPT ![xTask] = RetiredTcb("free")]
                  ELSE tcbv]

xContainerStopRet(ulContainerID) ==
    /\ pxContainerGetByID(ulContainerID) # NULL
    /\ pxContainerList[pxContainerGetByID(ulContainerID)].eState = "RUNNING"

\* xContainerStop that keeps the handle of the task it deleted.
xContainerStopKeepsHandle(ulContainerID, xFrees) ==
    LET i == pxContainerGetByID(ulContainerID)
    IN  /\ xContainerMutex = NULL
        /\ xLastCall' = [op |-> "Stop", ulContainerID |-> ulContainerID,
                         xResult |-> xContainerStopRet(ulContainerID)]
        /\ IF xContainerStopRet(ulContainerID)
           THEN LET xTask == pxContainerList[i].xTaskHandle
                    d == vTaskDeleteByHandle(xPidNamespaces, tcb, xTask, xFrees)
                IN  /\ pxContainerList' =
                           [pxContainerList EXCEPT ![i].eState = "STOPPED"]
                    /\ tcb' = d.tcb
                    /\ xPidNamespaces' = d.pid
                    /\ xTaskParams' = [xTaskParams EXCEPT ![xTask] = NoTaskParams]
           ELSE UNCHANGED <<pxContainerList, tcb, xPidNamespaces, xTaskParams>>
        /\ UNCHANGED <<xContainerMutex, pcCaller, ulNextContainerID,
                       uxPidNamespaceBitmap, ipcVars, cgVars, envVars>>

xContainerStop(ulContainerID, xFrees) ==
    LET i == pxContainerGetByID(ulContainerID)
    IN  /\ xContainerMutex = NULL
        /\ xLastCall' = [op |-> "Stop", ulContainerID |-> ulContainerID,
                         xResult |-> xContainerStopRet(ulContainerID)]
        /\ IF xContainerStopRet(ulContainerID)
           THEN LET xTask == pxContainerList[i].xTaskHandle
                    d == vTaskDeleteByHandle(xPidNamespaces, tcb, xTask, xFrees)
                IN  /\ pxContainerList' =
                           [pxContainerList EXCEPT ![i].eState = "STOPPED",
                                                   ![i].xTaskHandle = NULL]
                    /\ tcb' = d.tcb
                    /\ xPidNamespaces' = d.pid
                    /\ xTaskParams' = [xTaskParams EXCEPT ![xTask] = NoTaskParams]
           ELSE UNCHANGED <<pxContainerList, tcb, xPidNamespaces, xTaskParams>>
        /\ UNCHANGED <<xContainerMutex, pcCaller, ulNextContainerID,
                       uxPidNamespaceBitmap, ipcVars, cgVars, envVars>>

\* What xContainerDelete returns when it returns.
xContainerDeleteRet(ulContainerID) == pxContainerGetByID(ulContainerID) # NULL

\* xContainerDelete.  For a RUNNING container it calls xContainerStop while
\* it holds the mutex; xContainerStop asks for the same mutex and the caller
\* waits for itself: no step leaves that position.
xContainerDeleteLocked(xCaller, ulContainerID) ==
    LET i == pxContainerGetByID(ulContainerID)
    IN  /\ xContainerMutex = NULL
        /\ UNCHANGED <<xTaskParams, kernelVars, envVars>>
        /\ IF i = NULL
           THEN /\ xLastCall' = [op |-> "Delete", ulContainerID |-> ulContainerID,
                                 xResult |-> FALSE]
                /\ pcCaller' = [pcCaller EXCEPT ![xCaller] = IdleCaller]
                /\ UNCHANGED <<pxContainerList, xContainerMutex,
                               pidVars, ipcVars, cgVars>>
           ELSE IF pxContainerList[i].eState = "RUNNING"
           THEN /\ xContainerMutex' = xCaller
                /\ pcCaller' = [pcCaller EXCEPT ![xCaller] =
                                   [pc |-> "stopWait", ulContainerID |-> ulContainerID]]
                /\ UNCHANGED <<pxContainerList, xLastCall, pidVars, ipcVars, cgVars>>
           ELSE /\ pxContainerList' = RemoveAt(pxContainerList, i)
                /\ xCGroupDelete(pxContainerList[i].xCGroup)
                /\ xPidNamespaceDelete(pxContainerList[i].xPidNamespace)
                /\ xIpcNamespaceDelete(pxContainerList[i].xIpcNamespace)
                /\ xLastCall' = [op |-> "Delete", ulContainerID |-> ulContainerID,
                                 xResult |-> TRUE]
                /\ pcCaller' = [pcCaller EXCEPT ![xCaller] = IdleCaller]
                /\ UNCHANGED xContainerMutex

xContainerDelete(xCaller, ulContainerID) ==
    /\ xContainerDeleteLocked(xCaller, ulContainerID)
    /\ UNCHANGED ulNextContainerID

\* xContainerCreateCommand up to the return of xContainerCreateWithLimits:
\* the container is created and the image is about to be unpacked.
xContainerCreateCommand(xCaller, ulMemoryLimit, ulCpuQuota) ==
    xContainerCreateWithLimitsThen(xCaller, ulMemoryLimit, ulCpuQuota, "unpack")

\* xContainerCreateCommand from xContainerUnpackImage on.  When the image
\* was not unpacked the command takes ulNextContainerID back by one and
\* deletes the container with that id; the counter is written before
\* xContainerDelete asks for the mutex.
xContainerCreateCommandUnpack(xCaller, xUnpacked) ==
    /\ pcCaller[xCaller].pc = "unpack"
    /\ IF xUnpacked
       THEN /\ pcCaller' = [pcCaller EXCEPT ![xCaller] = IdleCaller]
            /\ UNCHANGED <<pxContainerList, ulNextContainerID, xContainerMutex,
                           xTaskParams, xLastCall, kernelVars, pidVars, ipcVars,
                           cgVars, envVars>>
       ELSE /\ ulNextContainerID' = ulNextContainerID - 1
            /\ IF xContainerMutex = NULL
               THEN xContainerDeleteLocked(xCaller, ulNextContainerID - 1)
               ELSE /\ pcCaller' = [pcCaller EXCEPT ![xCaller] =
                                       [pc |-> "deleteWait",
                                        ulContainerID |-> ulNextContainerID - 1]]
                    /\ UNCHANGED <<pxContainerList, xContainerMutex, xTaskParams,
                                   xLastCall, kernelVars, pidVars, ipcVars,
                                   cgVars, envVars>>

\* eTaskGetState(xTask) == eDeleted.  The state read from a freed TCB is
\* undefined: xFreedReadAsDeleted holds the freed TCBs that read as deleted.
eTaskGetStateIsDeleted(xTask, xFreedReadAsDeleted) ==
    \/ tcb[xTask].state = "deleted"
    \/ tcb[xTask].state = "free" /\ xTask \in xFreedReadAsDeleted

\* A daemon pass that also resets a container in ERROR whose task is gone.
vContainerDaemonTaskAnyState(xFreedReadAsDeleted) ==
    /\ xContainerMutex = NULL
    /\ pxContainerList' =
           [i \in ContainerIndices |->
               IF /\ pxContainerList[i].eState \in {"RUNNING", "ERROR"}
                  /\ pxContainerList[i].xTaskHandle # NULL
                  /\ eTaskGetStateIsDeleted(pxContainerList[i].xTaskHandle,
                                            xFreedReadAsDeleted)
               THEN [pxContainerList[i] EXCEPT !.eState = "STOPPED",
                                               !.xTaskHandle = NULL]
               ELSE pxContainerList[i]]
    /\ UNCHANGED <<ulNextContainerID, xContainerMutex, pcCaller, xTaskParams,
                   xLastCall, kernelVars, pidVars, ipcVars, cgVars, envVars>>

\* One pass of the daemon over the list, under the mutex.
vContainerDaemonTask(xFreedReadAsDeleted) ==
    /\ xContainerMutex = NULL
    /\ pxContainerList' =
           [i \in ContainerIndices |->
               IF /\ pxContainerList[i].eState = "RUNNING"
                  /\ pxContainerList[i].xTaskHandle # NULL
                  /\ eTaskGetStateIsDeleted(pxContainerList[i].xTaskHandle,
                                            xFreedReadAsDeleted)
               THEN [pxContainerList[i] EXCEPT !.eState = "STOPPED",
                                               !.xTaskHandle = NULL]
               ELSE pxContainerList[i]]
    /\ UNCHANGED <<ulNextContainerID, xContainerMutex, pcCaller, xTaskParams,
                   xLastCall, kernelVars, pidVars, ipcVars, cgVars, envVars>>

\* vContainerTaskWrapper from the ready semaphore to the call of the
\* container function.  A task whose parameter block was freed reads its
\* container pointer from freed memory: xWild is the container it finds
\* there (NULL: none, the task faults).  xLoaded tells whether chroot and
\* the ELF load succeed.
vContainerTaskWrapper(xTask, xWild, xLoaded) ==
    LET target == IF xTaskParams[xTask].xFreed
                  THEN xWild
                  ELSE xTaskParams[xTask].pxContainer
        i == pxContainerGetByID(target)
    IN  /\ tcb[xTask].state = "alive"
        /\ xTaskParams[xTask].pc = "wrapper"
        /\ UNCHANGED <<ulNextContainerID, xContainerMutex, pcCaller, xLastCall,
                       uxPidNamespaceBitmap, ipcVars, cgVars, envVars>>
        /\ IF i = NULL
           THEN /\ xTaskParams' = [xTaskParams EXCEPT ![xTask].pc = "fault"]
                /\ UNCHANGED <<pxContainerList, tcb, xPidNamespaces>>
           ELSE LET pxContainer == pxContainerList[i]
                    tcb1 == IF pxContainer.xIpcNamespace # NULL
                            THEN TcbSetIpcNamespace(tcb, xTask,
                                                    pxContainer.xIpcNamespace)
                            ELSE tcb
                    xVerified ==
                        /\ \/ pxContainer.xCGroup = NULL
                           \/ xCGroupGetTaskGroup(xTask) = pxContainer.xCGroup
                        /\ \/ pxContainer.xPidNamespace = NULL
                           \/ pvTaskGetPidNamespace(tcb1, xTask)
                                  = pxContainer.xPidNamespace
                        /\ xLoaded
                IN  IF xVerified
                    THEN /\ pxContainerList' =
                                [pxContainerList EXCEPT ![i].xReadySemaphore = FALSE]
                         /\ tcb' = tcb1
                         /\ xTaskParams' = [xTaskParams EXCEPT ![xTask].pc = "user"]
                         /\ UNCHANGED xPidNamespaces
                    ELSE LET d == vTaskDelete(xPidNamespaces, tcb1, xTask, FALSE)
                         IN  /\ pxContainerList' =
                                    [pxContainerList EXCEPT
                                        ![i].xReadySemaphore = FALSE,
                                        ![i].eState = "ERROR"]
                             /\ tcb' = d.tcb
                             /\ xPidNamespaces' = d.pid
                             /\ xTaskParams' =
                                    [xTaskParams EXCEPT ![xTask] = NoTaskParams]

\* The container function ends its task with vTaskDelete(NULL).
prvContainerTaskExit(xTask) ==
    LET d == vTaskDelete(xPidNamespaces, tcb, xTask, FALSE)
    IN  /\ tcb[xTask].state = "alive"
        /\ xTaskParams[xTask].pc = "user"
        /\ tcb' = d.tcb
        /\ xPidNamespaces' = d.pid
        /\ xTaskParams' = [xTaskParams EXCEPT ![xTask] = NoTaskParams]
        /\ UNCHANGED <<pxContainerList, ulNextContainerID, xContainerMutex,
                       pcCaller, xLastCall, uxPidNamespaceBitmap, ipcVars,
                       cgVars, envVars>>

\* vContainerTaskWrapper one statement at a time.  The position of the task
\* is "wrapper" at the startup gate, then "ipc", "cgroup", "pid", "chroot"
\* and "load" before the statement of that name, and "user" in the container
\* function.  xKernelResult is what the kernel call of the statement
\* returns (xTaskSetIpcNamespace, xTaskChroot, get_elf_by_name).  The
\* wrapper reads its container pointer once, at its first statement; a task
\* whose parameter block was freed reads it from freed memory, and xWild is
\* the container it finds there.  When the container itself was freed the
\* pointer stays and the fields read through it are those of whatever is
\* there now: the container xWild, or nothing the task can use.
WrapperPositions == {"wrapper", "ipc", "cgroup", "pid", "chroot", "load"}

prvWrapperPointer(xTask, xWild) ==
    IF xTaskParams[xTask].pc = "wrapper" /\ xTaskParams[xTask].xFreed
    THEN xWild
    ELSE xTaskParams[xTask].pxContainer

\* The statements of every failure branch: the container becomes ERROR (a
\* write into freed memory when the container was freed) and the task
\* deletes itself.
prvWrapperFail(xTask, i) ==
    LET d == vTaskDelete(xPidNamespaces, tcb, xTask, FALSE)
    IN  /\ pxContainerList' = IF i # NULL
                              THEN [pxContainerList EXCEPT ![i].eState = "ERROR"]
                              ELSE pxContainerList
        /\ tcb' = d.tcb
        /\ xPidNamespaces' = d.pid
        /\ xTaskParams' = [xTaskParams EXCEPT ![xTask] = NoTaskParams]

prvWrapperAdvance(xTask, ulContainerID, pcNext) ==
    /\ xTaskParams' = [xTaskParams EXCEPT ![xTask].pc = pcNext]
    /\ UNCHANGED <<pxContainerList, tcb, xPidNamespaces>>

\* The wrapper without the check of the PID namespace.
vContainerTaskWrapperStepNoPidCheck(xTask, xWild, xKernelResult) ==
    LET ulContainerID == prvWrapperPointer(xTask, xWild)
        i == pxContainerGetByID(ulContainerID)
        xRead == IF i # NULL THEN i ELSE pxContainerGetByID(xWild)
        pc == xTaskParams[xTask].pc
    IN  /\ tcb[xTask].state = "alive"
        /\ pc \in WrapperPositions
        /\ UNCHANGED <<ulNextContainerID, xContainerMutex, pcCaller, xLastCall,
                       uxPidNamespaceBitmap, ipcVars, cgVars, envVars>>
        /\ IF xRead = NULL
           THEN /\ xTaskParams' = [xTaskParams EXCEPT ![xTask].pc = "fault"]
                /\ UNCHANGED <<pxContainerList, tcb, xPidNamespaces>>
           ELSE LET pxContainer == pxContainerList[xRead]
                IN  CASE pc = "wrapper" ->
                           /\ pxContainerList' =
                                  IF i # NULL
                                  THEN [pxContainerList EXCEPT
                                           ![i].xReadySemaphore = FALSE]
                                  ELSE pxContainerList
                           /\ xTaskParams' =
                                  [xTaskParams EXCEPT ![xTask].pc = "ipc",
                                                      ![xTask].pxContainer = ulContainerID]
                           /\ UNCHANGED <<tcb, xPidNamespaces>>
                      [] pc = "ipc" ->
                           IF pxContainer.xIpcNamespace = NULL
                           THEN prvWrapperAdvance(xTask, ulContainerID, "cgroup")
                           ELSE IF xKernelResult
                           THEN /\ tcb' = TcbSetIpcNamespace(tcb, xTask,
                                                             pxContainer.xIpcNamespace)
                                /\ xTaskParams' =
                                       [xTaskParams EXCEPT ![xTask].pc = "cgroup"]
                                /\ UNCHANGED <<pxContainerList, xPidNamespaces>>
                           ELSE prvWrapperFail(xTask, i)
                      [] pc = "cgroup" ->
                           IF \/ pxContainer.xCGroup = NULL
                              \/ xCGroupGetTaskGroup(xTask) = pxContainer.xCGroup
                           THEN prvWrapperAdvance(xTask, ulContainerID, "pid")
                           ELSE prvWrapperFail(xTask, i)
                      [] pc = "pid" ->
                           prvWrapperAdvance(xTask, ulContainerID, "chroot")
                      [] pc = "chroot" ->
                           IF xKernelResult
                           THEN prvWrapperAdvance(xTask, ulContainerID, "load")
                           ELSE prvWrapperFail(xTask, i)
                      [] pc = "load" ->
                           IF xKernelResult
                           THEN prvWrapperAdvance(xTask, ulContainerID, "user")
                           ELSE prvWrapperFail(xTask, i)

vContainerTaskWrapperStep(xTask, xWild, xKernelResult) ==
    LET ulContainerID == prvWrapperPointer(xTask, xWild)
        i == pxContainerGetByID(ulContainerID)
        xRead == IF i # NULL THEN i ELSE pxContainerGetByID(xWild)
        pc == xTaskParams[xTask].pc
    IN  /\ tcb[xTask].state = "alive"
        /\ pc \in WrapperPositions
        /\ UNCHANGED <<ulNextContainerID, xContainerMutex, pcCaller, xLastCall,
                       uxPidNamespaceBitmap, ipcVars, cgVars, envVars>>
        /\ IF xRead = NULL
           THEN /\ xTaskParams' = [xTaskParams EXCEPT ![xTask].pc = "fault"]
                /\ UNCHANGED <<pxContainerList, tcb, xPidNamespaces>>
           ELSE LET pxContainer == pxContainerList[xRead]
                IN  CASE pc = "wrapper" ->
                           /\ pxContainerList' =
                                  IF i # NULL
                                  THEN [pxContainerList EXCEPT
                                           ![i].xReadySemaphore = FALSE]
                                  ELSE pxContainerList
                           /\ xTaskParams' =
                                  [xTaskParams EXCEPT ![xTask].pc = "ipc",
                                                      ![xTask].pxContainer = ulContainerID]
                           /\ UNCHANGED <<tcb, xPidNamespaces>>
                      [] pc = "ipc" ->
                           IF pxContainer.xIpcNamespace = NULL
                           THEN prvWrapperAdvance(xTask, ulContainerID, "cgroup")
                           ELSE IF xKernelResult
                           THEN /\ tcb' = TcbSetIpcNamespace(tcb, xTask,
                                                             pxContainer.xIpcNamespace)
                                /\ xTaskParams' =
                                       [xTaskParams EXCEPT ![xTask].pc = "cgroup"]
                                /\ UNCHANGED <<pxContainerList, xPidNamespaces>>
                           ELSE prvWrapperFail(xTask, i)
                      [] pc = "cgroup" ->
                           IF \/ pxContainer.xCGroup = NULL
                              \/ xCGroupGetTaskGroup(xTask) = pxContainer.xCGroup
                           THEN prvWrapperAdvance(xTask, ulContainerID, "pid")
                           ELSE prvWrapperFail(xTask, i)
                      [] pc = "pid" ->
                           IF \/ pxContainer.xPidNamespace = NULL
                              \/ pvTaskGetPidNamespace(tcb, xTask)
                                     = pxContainer.xPidNamespace
                           THEN prvWrapperAdvance(xTask, ulContainerID, "chroot")
                           ELSE prvWrapperFail(xTask, i)
                      [] pc = "chroot" ->
                           IF xKernelResult
                           THEN prvWrapperAdvance(xTask, ulContainerID, "load")
                           ELSE prvWrapperFail(xTask, i)
                      [] pc = "load" ->
                           IF xKernelResult
                           THEN prvWrapperAdvance(xTask, ulContainerID, "user")
                           ELSE prvWrapperFail(xTask, i)

(***************************************************************************)
(* File system (file_system.c over littlefs).  A path is a sequence of     *)
(* bytes without the terminating NUL.  littlefs itself is outside the      *)
(* repository's sources; the volume is modelled from its interface: a node *)
(* per path, a path being the sequence of its component names, and a       *)
(* directory listed in ascending order of names.  Names "." and ".." are   *)
(* not used by the callers modelled here.  Calls on the volume succeed     *)
(* whenever their arguments allow it, unless a fault is injected.  The     *)
(* path wrappers build the path in the static buffer tmp_path; where a     *)
(* wrapper is one step the buffer is written and read within the step and  *)
(* its contents are left out.                                              *)
(***************************************************************************)
chSlash == 47
chZero == 48
configMAX_PATH_LEN == 256
LFS_NAME_MAX == 255

pcRootDir == <<chSlash>>

\* pvTaskGetRootPath copies the root path of the TCB; fs_build_full_path
\* joins it with the caller's path in a buffer of max_len bytes.
fs_build_full_path(root_path, path, max_len) ==
    IF path # <<>> /\ path[1] = chSlash /\ root_path = pcRootDir
    THEN path
    ELSE LET root_len == Min({Len(root_path), max_len - 1})
             path_len == Min({Len(path), max_len - 1})
             i == IF /\ root_len > 0
                     /\ root_path[root_len] = chSlash
                     /\ path # <<>>
                     /\ path[1] = chSlash
                  THEN root_len - 1
                  ELSE root_len
             j == Min({path_len, max_len - 1 - i})
         IN  SubSeq(root_path, 1, i) \o SubSeq(path, 1, j)

\* The positions that bound the component names of a path: its slashes,
\* the position before its first byte and the one after its last.
lfsBreaks(path) ==
    {i \in 1..Len(path) : path[i] = chSlash} \cup {0, Len(path) + 1}

\* The component names of a path; empty components are skipped.
lfsComponents(path) ==
    LET xBreaks == lfsBreaks(path)
        xStarts == {a \in xBreaks : a <= Len(path) /\ a + 1 \notin xBreaks}
    IN  [n \in 1..Cardinality(xStarts) |->
            LET a == CHOOSE x \in xStarts :
                         Cardinality({y \in xStarts : y <= x}) = n
            IN  SubSeq(path, a + 1, Min({b \in xBreaks : b > a}) - 1)]

lfsParent(xNames) == SubSeq(xNames, 1, Len(xNames) - 1)

lfsDirNode == [type |-> "LFS_TYPE_DIR", size |-> 0, data |-> <<>>]
lfsRegNode(data) == [type |-> "LFS_TYPE_REG", size |-> Len(data), data |-> data]

\* A freshly formatted volume holds the root directory only.
FormattedVolume == (<<>> :> lfsDirNode)
NoFsCall == [op |-> "none"]

lfsIsDir(vol, xNames) ==
    xNames \in DOMAIN vol /\ vol[xNames].type = "LFS_TYPE_DIR"

lfsChildren(vol, xNames) ==
    {k \in DOMAIN vol : k # <<>> /\ lfsParent(k) = xNames}

\* lfs_stat: the error code and, on LFS_ERR_OK, the node.
lfs_stat(vol, path) ==
    LET k == lfsComponents(path)
    IN  IF k \in DOMAIN vol
        THEN [err |-> "LFS_ERR_OK", info |-> vol[k]]
        ELSE [err |-> "LFS_ERR_NOENT", info |-> lfsDirNode]

lfsCanCreate(vol, k) ==
    /\ k # <<>>
    /\ k \notin DOMAIN vol
    /\ lfsIsDir(vol, lfsParent(k))
    /\ Len(k[Len(k)]) <= LFS_NAME_MAX

\* lfs_mkdir: the error code and the volume afterwards.
lfs_mkdir(vol, path) ==
    LET k == lfsComponents(path)
    IN  IF lfsCanCreate(vol, k)
        THEN [err |-> "LFS_ERR_OK", vol |-> (k :> lfsDirNode) @@ vol]
        ELSE [err |-> IF k \in DOMAIN vol THEN "LFS_ERR_EXIST" ELSE "LFS_ERR_NOENT",
              vol |-> vol]

\* lfs_remove: a file, or a directory that is empty.
lfs_remove(vol, path) ==
    LET k == lfsComponents(path)
    IN  IF k # <<>> /\ k \in DOMAIN vol /\ lfsChildren(vol, k) = {}
        THEN [err |-> "LFS_ERR_OK",
              vol |-> [n \in DOMAIN vol \ {k} |-> vol[n]]]
        ELSE [err |-> IF k \in DOMAIN vol THEN "LFS_ERR_NOTEMPTY"
                      ELSE "LFS_ERR_NOENT",
              vol |-> vol]

\* lfs_file_open with LFS_O_RDONLY: the error code and the file's bytes.
lfs_file_open_rdonly(vol, path) ==
    LET k == lfsComponents(path)
    IN  IF k \in DOMAIN vol /\ vol[k].type = "LFS_TYPE_REG"
        THEN [err |-> "LFS_ERR_OK", data |-> vol[k].data]
        ELSE [err |-> IF k \in DOMAIN vol THEN "LFS_ERR_ISDIR" ELSE "LFS_ERR_NOENT",
              data |-> <<>>]

\* lfs_file_open with LFS_O_WRONLY | LFS_O_CREAT | LFS_O_TRUNC followed by
\* writes of data and lfs_file_close.
lfs_file_create(vol, path, data) ==
    LET k == lfsComponents(path)
    IN  IF lfsCanCreate(vol, k)
        THEN [err |-> "LFS_ERR_OK", vol |-> (k :> lfsRegNode(data)) @@ vol]
        ELSE IF k \in DOMAIN vol /\ vol[k].type = "LFS_TYPE_REG"
        THEN [err |-> "LFS_ERR_OK", vol |-> [vol EXCEPT ![k] = lfsRegNode(data)]]
        ELSE [err |-> IF k \in DOMAIN vol THEN "LFS_ERR_ISDIR" ELSE "LFS_ERR_NOENT",
              vol |-> vol]

RECURSIVE lfsNameLess(_, _)
lfsNameLess(pcA, pcB) ==
    IF pcB = <<>> THEN FALSE
    ELSE IF pcA = <<>> THEN TRUE
    ELSE IF pcA[1] # pcB[1] THEN pcA[1] < pcB[1]
    ELSE lfsNameLess(Tail(pcA), Tail(pcB))

RECURSIVE lfsSortNames(_, _)
lfsSortNames(xNameSet, xSorted) ==
    IF xNameSet = {}
    THEN xSorted
    ELSE LET pcName == CHOOSE pc \in xNameSet : TRUE
             n == Cardinality({i \in 1..Len(xSorted) :
                                  lfsNameLess(xSorted[i], pcName)})
         IN  lfsSortNames(xNameSet \ {pcName},
                          SubSeq(xSorted, 1, n) \o <<pcName>> \o
                          SubSeq(xSorted, n + 1, Len(xSorted)))

\* lfs_dir_open and the lfs_dir_read calls after the entries "." and "..":
\* the name, type and size of each entry of the directory.
lfs_dir_read(vol, path) ==
    LET k == lfsComponents(path)
        xNames == lfsSortNames({c[Len(c)] : c \in lfsChildren(vol, k)}, <<>>)
    IN  [i \in 1..Len(xNames) |->
            [name |-> xNames[i],
             type |-> vol[Append(k, xNames[i])].type,
             size |-> vol[Append(k, xNames[i])].size]]

\* The wrappers of xLfsOps rewrite the path under the root path of the
\* calling task before they call littlefs.
fs_stat_wrapper(vol, root_path, path) ==
    lfs_stat(vol, fs_build_full_path(root_path, path, configMAX_PATH_LEN))

fs_mkdir_wrapper(vol, root_path, path) ==
    lfs_mkdir(vol, fs_build_full_path(root_path, path, configMAX_PATH_LEN))

fs_remove_wrapper(vol, root_path, path) ==
    lfs_remove(vol, fs_build_full_path(root_path, path, configMAX_PATH_LEN))

(***************************************************************************)
(* Container images (container_image.c).  An image is one byte holding the *)
(* number of files and, per file, its size in 8 bytes (least significant   *)
(* first), its name in 256 bytes padded with NUL, and its contents.  The   *)
(* file system is taken to be initialised and the image path non-NULL.     *)
(* xFault names what the platform refuses during an unpack: "malloc" for   *)
(* pvPortMalloc, "open" for the opening of an output file, "write" for the *)
(* write to it, "none" for nothing.                                        *)
(***************************************************************************)
ByteModulus == 256
ucNumFilesModulus == 2 ^ CountBits
imageNameLen == 256
imageSizeLen == 8
containerDirLen == 64

pcVarDir == <<chSlash, 118, 97, 114>>
pcVarContainerDir == pcVarDir \o <<chSlash, 99, 111, 110, 116, 97, 105, 110, 101, 114>>
pcContainerPrefix == pcVarContainerDir \o <<chSlash>>
pcImagesDir == pcContainerPrefix \o <<105, 109, 97, 103, 101, 115>>

RECURSIVE uint32_digits(_)
uint32_digits(value) ==
    IF value = 0
    THEN <<>>
    ELSE Append(uint32_digits(value \div 10), chZero + (value % 10))

uint32_to_string(value) ==
    IF value = 0 THEN <<chZero>> ELSE uint32_digits(value)

\* acContainerDir: "/var/container/<id>" in a buffer of 64 bytes.
prvContainerDir(ulContainerID) ==
    LET pc == pcContainerPrefix \o uint32_to_string(ulContainerID)
    IN  SubSeq(pc, 1, Min({Len(pc), containerDirLen - 1}))

\* acFilePath: the directory, a slash and the name.
prvFilePath(pcDir, pcName) == pcDir \o <<chSlash>> \o pcName

prvEnsureDirectoryExists(vol, root_path, pcPath) ==
    LET st == fs_stat_wrapper(vol, root_path, pcPath)
    IN  IF st.err = "LFS_ERR_OK"
        THEN [xReturn |-> st.info.type = "LFS_TYPE_DIR", vol |-> vol]
        ELSE IF st.err = "LFS_ERR_NOENT"
        THEN LET mk == fs_mkdir_wrapper(vol, root_path, pcPath)
             IN  [xReturn |-> mk.err = "LFS_ERR_OK", vol |-> mk.vol]
        ELSE [xReturn |-> FALSE, vol |-> vol]

prvDirectoryExists(vol, root_path, pcPath) ==
    LET st == fs_stat_wrapper(vol, root_path, pcPath)
    IN  st.err = "LFS_ERR_OK" /\ st.info.type = "LFS_TYPE_DIR"

\* The value of 8 bytes read into a uint64_t on the little-endian target.
RECURSIVE prvReadSize(_, _)
prvReadSize(aucBytes, i) ==
    IF i > Len(aucBytes)
    THEN 0
    ELSE aucBytes[i] + ByteModulus * prvReadSize(aucBytes, i + 1)

\* The 8 bytes a uint64_t is written as.
RECURSIVE prvWriteSize(_, _)
prvWriteSize(ullFileSize, n) ==
    IF n = 0
    THEN <<>>
    ELSE <<ullFileSize % ByteModulus>> \o
         prvWriteSize(ullFileSize \div ByteModulus, n - 1)

prvReadNameShort(aucFilenameBuf) ==
    LET nul == {i \in 1..(imageNameLen - 2) : aucFilenameBuf[i] = 0}
        n == IF nul = {} THEN imageNameLen - 2 ELSE Min(nul) - 1
    IN  SubSeq(aucFilenameBuf, 1, n)

\* The name in aucFilenameBuf after the last byte was set to NUL: the
\* bytes before the first NUL.
prvReadName(aucFilenameBuf) ==
    LET nul == {i \in 1..(imageNameLen - 1) : aucFilenameBuf[i] = 0}
        n == IF nul = {} THEN imageNameLen - 1 ELSE Min(nul) - 1
    IN  SubSeq(aucFilenameBuf, 1, n)

\* aucFilenameBuf after memset and strncpy of at most 255 bytes.
prvWriteName(pcName) ==
    [i \in 1..imageNameLen |->
        IF i <= Len(pcName) /\ i <= imageNameLen - 1 THEN pcName[i] ELSE 0]

fs_file_open_rdonly_wrapper(vol, root_path, path) ==
    lfs_file_open_rdonly(vol, fs_build_full_path(root_path, path, configMAX_PATH_LEN))

fs_file_create_wrapper(vol, root_path, path, data) ==
    lfs_file_create(vol, fs_build_full_path(root_path, path, configMAX_PATH_LEN), data)

fs_dir_read_wrapper(vol, root_path, path) ==
    lfs_dir_read(vol, fs_build_full_path(root_path, path, configMAX_PATH_LEN))

\* The loop of xContainerUnpackImage from file i on, the image read up to
\* byte pos.  A failure leaves what was written so far.
RECURSIVE prvUnpackFiles(_, _, _, _, _, _, _, _)
prvUnpackFiles(vol, root_path, aucImage, pos, i, ucNumFiles, acContainerDir, xFault) ==
    IF i >= ucNumFiles
    THEN [xReturn |-> TRUE, vol |-> vol]
    ELSE IF Len(aucImage) - pos < imageSizeLen + imageNameLen
    THEN [xReturn |-> FALSE, vol |-> vol]
    ELSE LET ullFileSize ==
                 prvReadSize(SubSeq(aucImage, pos + 1, pos + imageSizeLen), 1)
             aucFilenameBuf ==
                 SubSeq(aucImage, pos + imageSizeLen + 1,
                        pos + imageSizeLen + imageNameLen)
             posData == pos + imageSizeLen + imageNameLen
             acFilePath == prvFilePath(acContainerDir, prvReadName(aucFilenameBuf))
             pucBuffer == SubSeq(aucImage, posData + 1, posData + ullFileSize)
             opened == fs_file_create_wrapper(vol, root_path, acFilePath, <<>>)
             written == fs_file_create_wrapper(vol, root_path, acFilePath, pucBuffer)
         IN  IF xFault = "malloc" /\ ullFileSize > 0
             THEN [xReturn |-> FALSE, vol |-> vol]
             ELSE IF Len(aucImage) - posData < ullFileSize
             THEN [xReturn |-> FALSE, vol |-> vol]
             ELSE IF xFault = "open" \/ opened.err # "LFS_ERR_OK"
             THEN [xReturn |-> FALSE, vol |-> vol]
             ELSE IF xFault = "write" /\ ullFileSize > 0
             THEN [xReturn |-> FALSE, vol |-> opened.vol]
             ELSE prvUnpackFiles(written.vol, root_path, aucImage,
                                 posData + ullFileSize, i + 1, ucNumFiles,
                                 acContainerDir, xFault)

xContainerUnpackImageIntoExisting(vol, root_path, pcImagePath, ulContainerID, xFault) ==
    LET acContainerDir == prvContainerDir(ulContainerID)
        made == prvEnsureDirectoryExists(vol, root_path, acContainerDir)
        image_file == fs_file_open_rdonly_wrapper(made.vol, root_path, pcImagePath)
    IN  IF ~made.xReturn \/ image_file.err # "LFS_ERR_OK" \/ image_file.data = <<>>
        THEN [xReturn |-> FALSE, vol |-> made.vol]
        ELSE prvUnpackFiles(made.vol, root_path, image_file.data, 1, 0,
                            image_file.data[1], acContainerDir, xFault)

\* The result of xContainerUnpackImage and the volume it leaves.
xContainerUnpackImage(vol, root_path, pcImagePath, ulContainerID, xFault) ==
    LET acContainerDir == prvContainerDir(ulContainerID)
        var == prvEnsureDirectoryExists(vol, root_path, pcVarDir)
        varContainer == prvEnsureDirectoryExists(var.vol, root_path, pcVarContainerDir)
        made == fs_mkdir_wrapper(varContainer.vol, root_path, acContainerDir)
        image_file == fs_file_open_rdonly_wrapper(made.vol, root_path, pcImagePath)
    IN  IF ~var.xReturn
        THEN [xReturn |-> FALSE, vol |-> var.vol]
        ELSE IF ~varContainer.xReturn
        THEN [xReturn |-> FALSE, vol |-> varContainer.vol]
        ELSE IF prvDirectoryExists(varContainer.vol, root_path, acContainerDir)
        THEN [xReturn |-> FALSE, vol |-> varContainer.vol]
        ELSE IF made.err # "LFS_ERR_OK"
        THEN [xReturn |-> FALSE, vol |-> made.vol]
        ELSE IF image_file.err # "LFS_ERR_OK"
        THEN [xReturn |-> FALSE,
              vol |-> fs_remove_wrapper(made.vol, root_path, acContainerDir).vol]
        ELSE IF image_file.data = <<>>
        THEN [xReturn |-> FALSE, vol |-> made.vol]
        ELSE IF image_file.data[1] = 0
        THEN [xReturn |-> TRUE, vol |-> made.vol]
        ELSE prvUnpackFiles(made.vol, root_path, image_file.data, 1, 0,
                            image_file.data[1], acContainerDir, xFault)

RECURSIVE prvCountFilesWraps(_, _, _)
prvCountFilesWraps(xEntries, i, ucNumFiles) ==
    IF i > Len(xEntries)
    THEN ucNumFiles
    ELSE IF xEntries[i].type # "LFS_TYPE_REG"
    THEN prvCountFilesWraps(xEntries, i + 1, ucNumFiles)
    ELSE prvCountFilesWraps(xEntries, i + 1, (ucNumFiles + 1) % ucNumFilesModulus)

\* The first pass of xContainerPackImage: ucNumFiles after the entries from
\* i on, or -1 when the counter of CountBits bits came back to 0.
RECURSIVE prvCountFiles(_, _, _)
prvCountFiles(xEntries, i, ucNumFiles) ==
    IF i > Len(xEntries)
    THEN ucNumFiles
    ELSE IF xEntries[i].type # "LFS_TYPE_REG"
    THEN prvCountFiles(xEntries, i + 1, ucNumFiles)
    ELSE IF (ucNumFiles + 1) % ucNumFilesModulus = 0
    THEN -1
    ELSE prvCountFiles(xEntries, i + 1, (ucNumFiles + 1) % ucNumFilesModulus)

\* The second pass: the bytes written for the entries from i on until
\* ucNumFiles files are packed.
RECURSIVE prvPackFiles(_, _, _, _, _, _, _)
prvPackFiles(vol, root_path, xEntries, i, ucFileCount, ucNumFiles, acContainerDir) ==
    IF ucFileCount >= ucNumFiles \/ i > Len(xEntries)
    THEN [ucFileCount |-> ucFileCount, aucImage |-> <<>>]
    ELSE IF xEntries[i].type # "LFS_TYPE_REG"
    THEN prvPackFiles(vol, root_path, xEntries, i + 1, ucFileCount, ucNumFiles,
                      acContainerDir)
    ELSE LET input_file ==
                 fs_file_open_rdonly_wrapper(
                     vol, root_path, prvFilePath(acContainerDir, xEntries[i].name))
             rest == prvPackFiles(vol, root_path, xEntries, i + 1, ucFileCount + 1,
                                  ucNumFiles, acContainerDir)
         IN  IF input_file.err # "LFS_ERR_OK"
             THEN [ucFileCount |-> ucFileCount, aucImage |-> <<>>]
             ELSE [ucFileCount |-> rest.ucFileCount,
                   aucImage |-> prvWriteSize(xEntries[i].size, imageSizeLen) \o
                                prvWriteName(xEntries[i].name) \o
                                SubSeq(input_file.data, 1, xEntries[i].size) \o
                                rest.aucImage]

\* The result of xContainerPackImage and the volume it leaves.
xContainerPackImage(vol, root_path, ulContainerID, pcImagePath) ==
    LET acContainerDir == prvContainerDir(ulContainerID)
        xEntries == fs_dir_read_wrapper(vol, root_path, acContainerDir)
        ucNumFiles == prvCountFiles(xEntries, 1, 0)
        image_file == fs_file_create_wrapper(vol, root_path, pcImagePath, <<>>)
        packed == prvPackFiles(vol, root_path, xEntries, 1, 0, ucNumFiles,
                               acContainerDir)
    IN  IF ~prvDirectoryExists(vol, root_path, acContainerDir)
        THEN [xReturn |-> FALSE, vol |-> vol]
        ELSE IF ucNumFiles = -1
        THEN [xReturn |-> FALSE, vol |-> vol]
        ELSE IF ucNumFiles = 0
        THEN [xReturn |-> FALSE, vol |-> vol]
        ELSE IF image_file.err # "LFS_ERR_OK"
        THEN [xReturn |-> FALSE, vol |-> vol]
        ELSE IF packed.ucFileCount # ucNumFiles
        THEN [xReturn |-> FALSE,
              vol |-> fs_remove_wrapper(image_file.vol, root_path, pcImagePath).vol]
        ELSE [xReturn |-> TRUE,
              vol |-> fs_file_create_wrapper(image_file.vol, root_path, pcImagePath,
                                             <<ucNumFiles>> \o packed.aucImage).vol]

(***************************************************************************)
(* Initial state: after prvPidNamespaceInit, vIpcNamespaceInit and the     *)
(* zero-initialisation of the static tables and xContainerManagerInit; no  *)
(* task of the model created yet.                                           *)
(***************************************************************************)
InitControllers ==
    /\ tcb = InitTcb
    /\ xIpcNamespaces = InitIpcNamespaces
    /\ uxIpcNamespaceBitmap = {xIpcRootNamespace}
    /\ xIpcObjectEntries = InitIpcObjectEntries
    /\ uxObjectEntryCount = 0
    /\ xPidNamespaces = InitPidNamespaces
    /\ uxPidNamespaceBitmap = {xPidRootNamespace}
    /\ xCGroups = InitCGroups
    /\ uxCGroupBitmap = {}
    /\ xTaskCGroupMap = <<>>
    /\ xTickCount = 0
    /\ pxContainerList = <<>>
    /\ ulNextContainerID = 1
    /\ xContainerMutex = NULL
    /\ pcCaller = [xCaller \in Callers |-> IdleCaller]
    /\ xTaskParams = [xTask \in Tasks |-> NoTaskParams]
    /\ xLastCall = [op |-> "none", ulContainerID |-> 0, xResult |-> FALSE]
    /\ tmp_path = <<>>

Init ==
    /\ InitControllers
    /\ xVolume = FormattedVolume
    /\ xFsCall = NoFsCall

(***************************************************************************)
(* Kernel steps shared by the specifications.                              *)
(***************************************************************************)
TaskCreate ==
    \E xNewTask \in FreeTaskHandles :
        /\ tcb' = xTaskCreate(tcb, xNewTask)
        /\ UNCHANGED <<pidVars, ipcVars, cgVars, envVars, ctVars>>

TaskDelete ==
    \E xTask \in AliveTasks, byOther \in BOOLEAN :
        LET r == vTaskDelete(xPidNamespaces, tcb, xTask, byOther)
        IN  /\ tcb' = r.tcb
            /\ xPidNamespaces' = r.pid
            /\ UNCHANGED <<uxPidNamespaceBitmap, ipcVars,
                           cgVars, envVars, ctVars>>

\* The idle task frees the TCB of a task that deleted itself.
IdleCleanup ==
    \E xTask \in Tasks :
        /\ tcb[xTask].state = "deleted"
        /\ tcb' = [tcb EXCEPT ![xTask] = RetiredTcb("free")]
        /\ UNCHANGED <<pidVars, ipcVars, cgVars, envVars, ctVars>>

(***************************************************************************)
(* Specification of the IPC namespace controller under arbitrary callers.  *)
(***************************************************************************)
IpcCreate ==
    /\ xIpcNamespaceCreate
    /\ UNCHANGED <<kernelVars, pidVars, cgVars, envVars, ctVars>>

IpcDelete ==
    \E xNamespace \in IpcSlots :
        /\ xIpcNamespaceDelete(xNamespace)
        /\ UNCHANGED <<kernelVars, pidVars, cgVars, envVars, ctVars>>

IpcRegister ==
    \E xNamespace \in IpcSlots, pvIpcObject \in Objects :
        /\ xIpcNamespaces[xNamespace].ulNextObjectId <= MaxObjectId
        /\ ulIpcNamespaceRegisterObject(xNamespace, pvIpcObject)
        /\ UNCHANGED <<kernelVars, pidVars, cgVars, envVars, ctVars>>

IpcUnregister ==
    \E xNamespace \in IpcSlots, pvIpcObject \in Objects :
        /\ xIpcNamespaceUnregisterObject(xNamespace, pvIpcObject)
        /\ UNCHANGED <<kernelVars, pidVars, cgVars, envVars, ctVars>>

IpcSetTaskNamespace ==
    \E xTask \in AliveTasks, xNamespace \in IpcSlots \cup {NULL} :
        /\ tcb' = TcbSetIpcNamespace(tcb, xTask, xNamespace)
        /\ UNCHANGED <<pidVars, ipcVars, cgVars, envVars, ctVars>>

NextIpc ==
    \/ TaskCreate
    \/ IpcCreate
    \/ IpcDelete
    \/ IpcRegister
    \/ IpcUnregister
    \/ IpcSetTaskNamespace

SpecIpc == Init /\ [][NextIpc]_vars

(***************************************************************************)
(* Specification of the registry of a build with room for more than one    *)
(* object in a namespace: namespaces are created and deleted, objects are  *)
(* registered and unregistered, in any order.                              *)
(***************************************************************************)
InitRegistry ==
    /\ tcb = InitTcb
    /\ xIpcNamespaces = InitIpcNamespaces
    /\ uxIpcNamespaceBitmap = {xIpcRootNamespace}
    /\ xIpcObjectEntries =
           [ux \in 1..(MaxIpcNamespaces * RegistryObjectsPerNs) |-> NoIpcObjectEntry]
    /\ uxObjectEntryCount = 0
    /\ xPidNamespaces = InitPidNamespaces
    /\ uxPidNamespaceBitmap = {xPidRootNamespace}
    /\ xCGroups = InitCGroups
    /\ uxCGroupBitmap = {}
    /\ xTaskCGroupMap = <<>>
    /\ xTickCount = 0
    /\ pxContainerList = <<>>
    /\ ulNextContainerID = 1
    /\ xContainerMutex = NULL
    /\ pcCaller = [xCaller \in Callers |-> IdleCaller]
    /\ xTaskParams = [xTask \in Tasks |-> NoTaskParams]
    /\ xLastCall = [op |-> "none", ulContainerID |-> 0, xResult |-> FALSE]
    /\ xVolume = FormattedVolume
    /\ xFsCall = NoFsCall
    /\ tmp_path = <<>>

NextRegistry ==
    \/ IpcCreate
    \/ IpcDelete
    \/ IpcRegister
    \/ IpcUnregister

SpecRegistry == InitRegistry /\ [][NextRegistry]_vars

(***************************************************************************)
(* ulIpcNamespaceRegisterObject one statement at a time.  The handle, the  *)
(* object and the xActive flag of the namespace are tested before the      *)
(* critical section is entered; the caller can be preempted between the    *)
(* test and the critical section, which does not test the flag again.      *)
(* The arguments are kept in the record of the caller.                     *)
(***************************************************************************)
ulIpcNamespaceRegisterObjectCheck(xCaller, xNamespace, pvIpcObject) ==
    /\ pcCaller[xCaller].pc = "idle"
    /\ pcCaller' =
           IF \/ xNamespace = NULL
              \/ pvIpcObject = NULL
              \/ ~xIpcNamespaces[xNamespace].xActive
           THEN pcCaller
           ELSE [pcCaller EXCEPT ![xCaller] =
                    [pc |-> "registerChecked", ulContainerID |-> 0,
                     xNamespace |-> xNamespace, pvIpcObject |-> pvIpcObject]]
    /\ UNCHANGED <<pxContainerList, ulNextContainerID, xContainerMutex,
                   xTaskParams, xLastCall, kernelVars, pidVars, ipcVars,
                   cgVars, envVars>>

ulIpcNamespaceRegisterObjectCritical(xCaller) ==
    LET xNamespace == pcCaller[xCaller].xNamespace
        pxEntry == prvFindFreeObjectEntry
        ulObjectId == xIpcNamespaces[xNamespace].ulNextObjectId
    IN  /\ pcCaller[xCaller].pc = "registerChecked"
        /\ IF \/ xIpcNamespaces[xNamespace].uxObjectCount >= uxMaxObjectsPerNamespace
              \/ pxEntry = NULL
           THEN UNCHANGED ipcVars
           ELSE /\ xIpcObjectEntries' =
                       [xIpcObjectEntries EXCEPT ![pxEntry] =
                           [pvIpcObject |-> pcCaller[xCaller].pvIpcObject,
                            xNamespace |-> xNamespace,
                            ulObjectId |-> ulObjectId]]
                /\ xIpcNamespaces' =
                       [xIpcNamespaces EXCEPT
                           ![xNamespace].ulNextObjectId = ulObjectId + 1,
                           ![xNamespace].uxObjectCount = @ + 1]
                /\ uxObjectEntryCount' = uxObjectEntryCount + 1
                /\ UNCHANGED uxIpcNamespaceBitmap
        /\ pcCaller' = [pcCaller EXCEPT ![xCaller] = IdleCaller]
        /\ UNCHANGED <<pxContainerList, ulNextContainerID, xContainerMutex,
                       xTaskParams, xLastCall, kernelVars, pidVars, cgVars,
                       envVars>>

(***************************************************************************)
(* Specification of the registry under preemption: a registration is two   *)
(* steps, and namespaces are created and deleted and objects unregistered  *)
(* in between.                                                             *)
(***************************************************************************)
RegisteringCallers == 1..MaxRegisteringCallers

IpcRegisterCheck ==
    \E xCaller \in RegisteringCallers, xNamespace \in IpcSlots, pvIpcObject \in Objects :
        /\ xIpcNamespaces[xNamespace].ulNextObjectId <= MaxObjectId
        /\ ulIpcNamespaceRegisterObjectCheck(xCaller, xNamespace, pvIpcObject)

IpcRegisterCritical ==
    \E xCaller \in RegisteringCallers : ulIpcNamespaceRegisterObjectCritical(xCaller)

NextRegistryRace ==
    \/ IpcCreate
    \/ IpcDelete
    \/ IpcRegisterCheck
    \/ IpcRegisterCritical
    \/ IpcUnregister

SpecRegistryRace == Init /\ [][NextRegistryRace]_vars

(***************************************************************************)
(* Specification of the isolated constructors: tasks in any namespace      *)
(* create objects, and owners unregister an object before they delete it.  *)
(***************************************************************************)
IpcIsolatedUnchanged ==
    UNCHANGED <<kernelVars, pidVars, cgVars, envVars, pxContainerList,
                ulNextContainerID, xContainerMutex, pcCaller, xTaskParams>>

IpcNextObjectIdInBounds(xTask) ==
    xIpcNamespaces[prvIsolatedNamespace(xTask)].ulNextObjectId <= MaxObjectId

IpcQueueCreateIsolated ==
    \E xTask \in AliveTasks, xQueue \in FreshObjects \cup {NULL} :
        /\ IpcNextObjectIdInBounds(xTask)
        /\ xQueueCreateIsolated(xTask, xQueue)
        /\ IpcIsolatedUnchanged

IpcSemaphoreCreateBinaryIsolated ==
    \E xTask \in AliveTasks, xSemaphore \in FreshObjects \cup {NULL} :
        /\ IpcNextObjectIdInBounds(xTask)
        /\ xSemaphoreCreateBinaryIsolated(xTask, xSemaphore)
        /\ IpcIsolatedUnchanged

IpcSemaphoreCreateMutexIsolated ==
    \E xTask \in AliveTasks, xMutex \in FreshObjects \cup {NULL} :
        /\ IpcNextObjectIdInBounds(xTask)
        /\ xSemaphoreCreateMutexIsolated(xTask, xMutex)
        /\ IpcIsolatedUnchanged

\* Teardown of an object: its owner unregisters it, then deletes it.
IpcUnregisterAndDelete ==
    \E xNamespace \in IpcSlots, pvIpcObject \in HeapObjects :
        /\ xIpcNamespaceUnregisterObjectRet(xNamespace, pvIpcObject)
        /\ xIpcNamespaceUnregisterObject(xNamespace, pvIpcObject)
        /\ UNCHANGED <<kernelVars, pidVars, cgVars, envVars, ctVars>>

\* A task is bound to an IPC namespace once, as the container wrapper does.
IpcBindTaskNamespace ==
    \E xTask \in AliveTasks, xNamespace \in IpcSlots :
        /\ pvTaskGetIpcNamespace(xTask) = NULL
        /\ tcb' = TcbSetIpcNamespace(tcb, xTask, xNamespace)
        /\ UNCHANGED <<pidVars, ipcVars, cgVars, envVars, ctVars>>

NextIpcIsolated ==
    \/ TaskCreate
    \/ IpcCreate
    \/ IpcDelete
    \/ IpcBindTaskNamespace
    \/ IpcQueueCreateIsolated
    \/ IpcSemaphoreCreateBinaryIsolated
    \/ IpcSemaphoreCreateMutexIsolated
    \/ IpcUnregisterAndDelete

SpecIpcIsolated == Init /\ [][NextIpcIsolated]_vars

(***************************************************************************)
(* Specification of the PID namespace controller under arbitrary callers.  *)
(***************************************************************************)
PidCreate ==
    /\ xPidNamespaceCreate
    /\ UNCHANGED <<kernelVars, ipcVars, cgVars, envVars, ctVars>>

PidDelete ==
    \E xNamespace \in PidSlots :
        /\ xPidNamespaceDelete(xNamespace)
        /\ UNCHANGED <<kernelVars, ipcVars, cgVars, envVars, ctVars>>

PidAddTask ==
    \E xNamespace \in PidSlots, xTask \in AliveTasks :
        LET r == xPidNamespaceAddTask(xPidNamespaces, tcb, xNamespace, xTask)
        IN  /\ xPidNamespaces' = r.pid
            /\ tcb' = r.tcb
            /\ UNCHANGED <<uxPidNamespaceBitmap, ipcVars,
                           cgVars, envVars, ctVars>>

PidRemoveTask ==
    \E xNamespace \in PidSlots, xTask \in AliveTasks :
        LET r == xPidNamespaceRemoveTask(xPidNamespaces, tcb, xNamespace, xTask)
        IN  /\ xPidNamespaces' = r.pid
            /\ tcb' = r.tcb
            /\ UNCHANGED <<uxPidNamespaceBitmap, ipcVars,
                           cgVars, envVars, ctVars>>

PidTaskCreateInNamespace ==
    \E xNamespace \in PidSlots, xNewTask \in FreeTaskHandles :
        LET r == xTaskCreateInNamespace(xPidNamespaces, tcb, xNamespace, xNewTask)
        IN  /\ xPidNamespaces' = r.pid
            /\ tcb' = r.tcb
            /\ UNCHANGED <<uxPidNamespaceBitmap, ipcVars,
                           cgVars, envVars, ctVars>>

NextPid ==
    \/ TaskCreate
    \/ TaskDelete
    \/ IdleCleanup
    \/ PidCreate
    \/ PidDelete
    \/ PidAddTask
    \/ PidRemoveTask
    \/ PidTaskCreateInNamespace

SpecPid == Init /\ [][NextPid]_vars

(***************************************************************************)
(* Specifications of the cgroup controller.  In SpecCGroup the task        *)
(* running at a tick is arbitrary; in SpecSched the scheduler consults     *)
(* prvCGroupCanTaskRun and only a task it admits runs at a tick.           *)
(***************************************************************************)
CGroupCreate ==
    \E ulMemoryLimit \in MemoryLimits, ulCpuQuota \in CpuQuotas :
        /\ xCGroupCreate(ulMemoryLimit, ulCpuQuota)
        /\ UNCHANGED <<kernelVars, pidVars, ipcVars, envVars, ctVars>>

\* A cgroup created without limits.
CGroupCreateNoLimit ==
    /\ xCGroupCreate(CGROUP_NO_LIMIT, CGROUP_CPU_QUOTA_MAX)
    /\ UNCHANGED <<kernelVars, pidVars, ipcVars, envVars, ctVars>>

CGroupDelete ==
    \E xCGroup \in CGroupSlots :
        /\ xCGroupDelete(xCGroup)
        /\ UNCHANGED <<kernelVars, pidVars, ipcVars, envVars, ctVars>>

CGroupAddTask ==
    \E xCGroup \in CGroupSlots, xTask \in AliveTasks :
        /\ xCGroupAddTask(xCGroup, xTask)
        /\ UNCHANGED <<kernelVars, pidVars, ipcVars, envVars, ctVars>>

CGroupRemoveTask ==
    \E xCGroup \in CGroupSlots, xTask \in Tasks :
        /\ xCGroupRemoveTask(xCGroup, xTask)
        /\ UNCHANGED <<kernelVars, pidVars, ipcVars, envVars, ctVars>>

CGroupGetStats ==
    \E xCGroup \in CGroupSlots, d \in DivisionByZeroResults :
        /\ xCGroupGetStats(xCGroup, d)
        /\ UNCHANGED <<kernelVars, pidVars, ipcVars, envVars, ctVars>>

CGroupSetCpuQuota ==
    \E xCGroup \in CGroupSlots, ulCpuQuota \in CpuQuotas :
        /\ xCGroupSetCpuQuota(xCGroup, ulCpuQuota)
        /\ UNCHANGED <<kernelVars, pidVars, ipcVars, envVars, ctVars>>

\* A tick with xCurrentTask running (NULL: a task outside the model).
TickWith(xCurrentTask) ==
    /\ xTickCount < MaxTick
    /\ xTickCount' = xTickCount + 1
    /\ \E d \in DivisionByZeroResults :
           xCGroups' = prvCGroupUpdateTick(xCurrentTask, xTickCount + 1, d)
    /\ UNCHANGED <<uxCGroupBitmap, xTaskCGroupMap, kernelVars, pidVars, ipcVars,
                   fsVars, ctVars>>

Tick == \E xCurrentTask \in AliveTasks \cup {NULL} : TickWith(xCurrentTask)

SchedTick ==
    \E xCurrentTask \in AliveTasks \cup {NULL} :
        /\ prvCGroupCanTaskRun(xCurrentTask)
        /\ TickWith(xCurrentTask)

NextCGroup ==
    \/ TaskCreate
    \/ CGroupCreate
    \/ CGroupDelete
    \/ CGroupAddTask
    \/ CGroupRemoveTask
    \/ CGroupGetStats
    \/ CGroupSetCpuQuota
    \/ Tick

SpecCGroup == Init /\ [][NextCGroup]_vars

NextSched ==
    \/ TaskCreate
    \/ CGroupCreate
    \/ CGroupDelete
    \/ CGroupAddTask
    \/ CGroupRemoveTask
    \/ CGroupGetStats
    \/ CGroupSetCpuQuota
    \/ SchedTick

SpecSched == Init /\ [][NextSched]_vars

(***************************************************************************)
(* Specification of the recovery from a penalty.  It starts after MaxTick  *)
(* ticks at which the task of a cgroup was running or not, whatever        *)
(* prvCGroupCanTaskRun said; from then on the scheduler consults           *)
(* prvCGroupCanTaskRun at every tick, the tick count wraps as a TickType_t *)
(* does, and the ticks never stop.  The callers ask for finite CPU quotas  *)
(* above 0.                                                                *)
(***************************************************************************)
RecoveryCpuQuotas == 1..MaxFiniteQuota

\* What xCGroupCreate leaves in a slot at tick 0.
RecoveryNewCGroup(ulCpuQuota) ==
    [ulMemoryLimit |-> CGROUP_NO_LIMIT, ulMemoryUsed |-> 0, ulMemoryPeak |-> 0,
     ulCpuQuota |-> ulCpuQuota, ulTicksUsed |-> 0,
     ulTicksQuota |-> IF ulCpuQuota = CGROUP_CPU_QUOTA_MAX
                      THEN CGROUP_NO_LIMIT ELSE ulCpuQuota,
     ulPenaltyTicksLeft |-> 0, xWindowStartTime |-> 0,
     xWindowDuration |-> WindowDuration, uxTaskCount |-> 1, xActive |-> TRUE]

\* The cgroup after the tick hook ran at the ticks k..n; xRan[k] tells
\* whether the task of the cgroup was the running task at tick k.
RECURSIVE RecoveryHistory(_, _, _, _)
RecoveryHistory(pxCGroup, k, n, xRan) ==
    IF k > n
    THEN pxCGroup
    ELSE LET charged == IF xRan[k]
                        THEN [pxCGroup EXCEPT !.ulTicksUsed = (@ + 1) % WordModulus]
                        ELSE pxCGroup
         IN  RecoveryHistory(prvTickOneCGroup(charged, k, 0), k + 1, n, xRan)

InitRecovery ==
    /\ tcb = xTaskCreate(InitTcb, 1)
    /\ xIpcNamespaces = InitIpcNamespaces
    /\ uxIpcNamespaceBitmap = {xIpcRootNamespace}
    /\ xIpcObjectEntries = InitIpcObjectEntries
    /\ uxObjectEntryCount = 0
    /\ xPidNamespaces = InitPidNamespaces
    /\ uxPidNamespaceBitmap = {xPidRootNamespace}
    /\ \E ulCpuQuota \in 1..MaxFiniteQuota, xRan \in [1..MaxTick -> BOOLEAN] :
           xCGroups = [InitCGroups EXCEPT ![1] =
                          RecoveryHistory(RecoveryNewCGroup(ulCpuQuota), 1, MaxTick, xRan)]
    /\ uxCGroupBitmap = {1}
    /\ xTaskCGroupMap = <<[xTask |-> 1, xCGroup |-> 1]>>
    /\ xTickCount = MaxTick
    /\ pxContainerList = <<>>
    /\ ulNextContainerID = 1
    /\ xContainerMutex = NULL
    /\ pcCaller = [xCaller \in Callers |-> IdleCaller]
    /\ xTaskParams = [xTask \in Tasks |-> NoTaskParams]
    /\ xLastCall = [op |-> "none", ulContainerID |-> 0, xResult |-> FALSE]
    /\ xVolume = FormattedVolume
    /\ xFsCall = NoFsCall
    /\ tmp_path = <<>>

RecoveryCreate ==
    \E ulCpuQuota \in RecoveryCpuQuotas :
        /\ xCGroupCreate(CGROUP_NO_LIMIT, ulCpuQuota)
        /\ UNCHANGED <<kernelVars, pidVars, ipcVars, envVars, ctVars>>

RecoverySetCpuQuota ==
    \E xCGroup \in CGroupSlots, ulCpuQuota \in RecoveryCpuQuotas :
        /\ xCGroupSetCpuQuota(xCGroup, ulCpuQuota)
        /\ UNCHANGED <<kernelVars, pidVars, ipcVars, envVars, ctVars>>

\* A tick at which the scheduler let a task run that prvCGroupCanTaskRun
\* admits (NULL: a task outside the model).
RecoveryTick ==
    \E xCurrentTask \in AliveTasks \cup {NULL} :
        /\ prvCGroupCanTaskRun(xCurrentTask)
        /\ xTickCount' = (xTickCount + 1) % TickModulus
        /\ xCGroups' = prvCGroupUpdateTick(xCurrentTask, xTickCount', 0)
        /\ UNCHANGED <<uxCGroupBitmap, xTaskCGroupMap, kernelVars, pidVars,
                       ipcVars, fsVars, ctVars>>

NextRecovery ==
    \/ TaskCreate
    \/ RecoveryCreate
    \/ CGroupDelete
    \/ CGroupAddTask
    \/ CGroupRemoveTask
    \/ CGroupGetStats
    \/ RecoverySetCpuQuota
    \/ RecoveryTick

SpecRecovery == InitRecovery /\ [][NextRecovery]_vars /\ WF_vars(RecoveryTick)

(***************************************************************************)
(* Specification of the container manager: callers create, start, stop     *)
(* and delete containers, the daemon passes over the list, container       *)
(* tasks run their wrapper and may end themselves, the idle task frees     *)
(* their TCBs.                                                             *)
(***************************************************************************)
ContainerCreate ==
    \E xCaller \in Callers, ulMemoryLimit \in ContainerMemoryLimits,
       ulCpuQuota \in ContainerCpuQuotas :
        /\ pcCaller[xCaller].pc = "idle"
        /\ ulNextContainerID <= MaxContainerId
        /\ xContainerCreateWithLimits(xCaller, ulMemoryLimit, ulCpuQuota)

ContainerStart ==
    \E ulContainerID \in ContainerIds, xNewTask \in FreeTaskHandles \cup {NULL} :
        xContainerStart(ulContainerID, xNewTask)

ContainerStop ==
    \E ulContainerID \in ContainerIds, xFrees \in BOOLEAN :
        xContainerStop(ulContainerID, xFrees)

ContainerDelete ==
    \E xCaller \in Callers, ulContainerID \in ContainerIds :
        /\ pcCaller[xCaller].pc = "idle"
        /\ xContainerDelete(xCaller, ulContainerID)

ContainerDaemon ==
    \E xFreedReadAsDeleted \in SUBSET Tasks :
        vContainerDaemonTask(xFreedReadAsDeleted)

ContainerTaskWrapper ==
    \E xTask \in Tasks, xWild \in ContainerIds \cup {NULL}, xLoaded \in BOOLEAN :
        vContainerTaskWrapper(xTask, xWild, xLoaded)

ContainerTaskExit == \E xTask \in Tasks : prvContainerTaskExit(xTask)

NextContainer ==
    \/ ContainerCreate
    \/ ContainerStart
    \/ ContainerStop
    \/ ContainerDelete
    \/ ContainerDaemon
    \/ ContainerTaskWrapper
    \/ ContainerTaskExit
    \/ IdleCleanup

SpecContainer == Init /\ [][NextContainer]_vars

\* The same, with the steps that can be taken eventually taken.
FairSpecContainer == SpecContainer /\ WF_vars(NextContainer)

(***************************************************************************)
(* xContainerCreateWithLimits one statement at a time.  The statement      *)
(* pxNewContainer->ulContainerID = ulNextContainerID++ is executed before  *)
(* the mutex is asked for: it loads the counter, then stores the           *)
(* incremented value, and the caller can be preempted in between.  The     *)
(* loaded value is kept in the ulContainerID field of the caller.          *)
(***************************************************************************)
xContainerCreateWithLimitsLoad(xCaller) ==
    /\ pcCaller[xCaller].pc = "idle"
    /\ pcCaller' = [pcCaller EXCEPT ![xCaller] =
                       [pc |-> "createLoaded", ulContainerID |-> ulNextContainerID]]
    /\ UNCHANGED <<pxContainerList, ulNextContainerID, xContainerMutex, xTaskParams,
                   xLastCall, kernelVars, pidVars, ipcVars, cgVars, envVars>>

xContainerCreateWithLimitsStore(xCaller) ==
    /\ pcCaller[xCaller].pc = "createLoaded"
    /\ ulNextContainerID' = pcCaller[xCaller].ulContainerID + 1
    /\ pcCaller' = [pcCaller EXCEPT ![xCaller].pc = "createStored"]
    /\ UNCHANGED <<pxContainerList, xContainerMutex, xTaskParams,
                   xLastCall, kernelVars, pidVars, ipcVars, cgVars, envVars>>

\* The rest of the call: the three resources, then the insertion at the
\* head of the list under the mutex.
xContainerCreateWithLimitsLink(xCaller, ulMemoryLimit, ulCpuQuota) ==
    LET ulMemLimit == IF ulMemoryLimit > 0 THEN ulMemoryLimit
                      ELSE containerDefaultMemoryLimit
        ulCpuLimit == IF ulCpuQuota > 0 THEN ulCpuQuota
                      ELSE containerDefaultCpuQuota
        pxNewContainer ==
            [ulContainerID |-> pcCaller[xCaller].ulContainerID,
             eState |-> "STOPPED",
             xTaskHandle |-> NULL,
             xCGroup |-> xCGroupCreateRet,
             xPidNamespace |-> xPidNamespaceCreateRet,
             xIpcNamespace |-> xIpcNamespaceCreateRet,
             xReadySemaphore |-> FALSE]
    IN  /\ pcCaller[xCaller].pc = "createStored"
        /\ xCGroupCreate(ulMemLimit, ulCpuLimit)
        /\ xPidNamespaceCreate
        /\ xIpcNamespaceCreate
        /\ IF xContainerMutex = NULL
           THEN /\ pxContainerList' = <<pxNewContainer>> \o pxContainerList
                /\ xLastCall' = [op |-> "Create",
                                 ulContainerID |-> pxNewContainer.ulContainerID,
                                 xResult |-> TRUE]
                /\ pcCaller' = [pcCaller EXCEPT ![xCaller] = IdleCaller]
           ELSE /\ pcCaller' = [pcCaller EXCEPT ![xCaller].pc = "createWait"]
                /\ UNCHANGED <<pxContainerList, xLastCall>>
        /\ UNCHANGED <<ulNextContainerID, xContainerMutex, xTaskParams,
                       kernelVars, envVars>>

(***************************************************************************)
(* Specification of concurrent creates: the callers run                    *)
(* xContainerCreateWithLimits statement by statement and are preempted by  *)
(* one another between the statements; containers are deleted in between.  *)
(***************************************************************************)
ContainerCreateLoad ==
    \E xCaller \in Callers :
        /\ ulNextContainerID <= MaxContainerId
        /\ xContainerCreateWithLimitsLoad(xCaller)

ContainerCreateStore ==
    \E xCaller \in Callers : xContainerCreateWithLimitsStore(xCaller)

ContainerCreateLink ==
    \E xCaller \in Callers, ulMemoryLimit \in ContainerMemoryLimits,
       ulCpuQuota \in ContainerCpuQuotas :
        xContainerCreateWithLimitsLink(xCaller, ulMemoryLimit, ulCpuQuota)

NextCreateRace ==
    \/ ContainerCreateLoad
    \/ ContainerCreateStore
    \/ ContainerCreateLink
    \/ ContainerDelete

SpecCreateRace == Init /\ [][NextCreateRace]_vars

(***************************************************************************)
(* xPidNamespaceCreate one statement at a time.  prvFindFreeNamespaceSlot  *)
(* is called before the critical section is entered, so the caller can be  *)
(* preempted between the search and the marking of the slot.  The slot it  *)
(* found is kept in the uxSlot field of the caller.                        *)
(***************************************************************************)
xPidNamespaceCreateFind(xCaller) ==
    LET uxSlot == prvFindFreePidNamespaceSlot
    IN  /\ pcCaller[xCaller].pc = "idle"
        /\ pcCaller' =
               IF uxSlot = NULL
               THEN pcCaller
               ELSE [pcCaller EXCEPT ![xCaller] =
                        [pc |-> "pidSlotFound", ulContainerID |-> 0,
                         uxSlot |-> uxSlot]]
        /\ UNCHANGED <<pxContainerList, ulNextContainerID, xContainerMutex,
                       xTaskParams, xLastCall, kernelVars, pidVars, ipcVars,
                       cgVars, envVars>>

\* The critical section: the namespace is initialised and its bit is set.
xPidNamespaceCreateMark(xCaller) ==
    LET uxSlot == pcCaller[xCaller].uxSlot
    IN  /\ pcCaller[xCaller].pc = "pidSlotFound"
        /\ xPidNamespaces' =
               [xPidNamespaces EXCEPT ![uxSlot] = prvInitializePidNamespace]
        /\ uxPidNamespaceBitmap' = uxPidNamespaceBitmap \cup {uxSlot}
        /\ pcCaller' = [pcCaller EXCEPT ![xCaller] = IdleCaller]
        /\ UNCHANGED <<pxContainerList, ulNextContainerID, xContainerMutex,
                       xTaskParams, xLastCall, kernelVars, ipcVars, cgVars,
                       envVars>>

(***************************************************************************)
(* Specification of concurrent creates in the three controllers.  The     *)
(* creates of the IPC namespaces and of the cgroups take their slot        *)
(* inside the critical section and are one step as far as the slot is      *)
(* concerned; the create of the PID namespaces is two.                     *)
(***************************************************************************)
PidCreateFind ==
    \E xCaller \in Callers : xPidNamespaceCreateFind(xCaller)

PidCreateMark ==
    \E xCaller \in Callers : xPidNamespaceCreateMark(xCaller)

NextSlotRace ==
    \/ PidCreateFind
    \/ PidCreateMark
    \/ PidDelete
    \/ IpcCreate
    \/ IpcDelete
    \/ CGroupCreate
    \/ CGroupDelete

SpecSlotRace == Init /\ [][NextSlotRace]_vars

(***************************************************************************)
(* The container manager with the wrapper of the container tasks run one   *)
(* statement at a time, so that the manager's calls and the daemon come    *)
(* between the statements.                                                 *)
(***************************************************************************)
ContainerTaskWrapperStep ==
    \E xTask \in Tasks, xWild \in ContainerIds \cup {NULL}, xKernelResult \in BOOLEAN :
        vContainerTaskWrapperStep(xTask, xWild, xKernelResult)

NextWrapper ==
    \/ ContainerCreate
    \/ ContainerStart
    \/ ContainerStop
    \/ ContainerDelete
    \/ ContainerDaemon
    \/ ContainerTaskWrapperStep
    \/ ContainerTaskExit
    \/ IdleCleanup

SpecWrapper == Init /\ [][NextWrapper]_vars

(***************************************************************************)
(* The PID namespace controller when every task of the application is     *)
(* created with xTaskCreateInNamespace and ends with vTaskDelete.          *)
(***************************************************************************)
NextPidCreate ==
    \/ PidCreate
    \/ PidDelete
    \/ PidTaskCreateInNamespace
    \/ TaskDelete
    \/ IdleCleanup

SpecPidCreate == Init /\ [][NextPidCreate]_vars

(***************************************************************************)
(* The task-to-cgroup map under an application that has more tasks than   *)
(* the map has entries.  The cgroup controller never looks into a TCB: a   *)
(* task is the handle the caller passes.                                   *)
(***************************************************************************)
CGroupAddTaskHandle ==
    \E xCGroup \in CGroupSlots, xTask \in TaskHandles :
        /\ xCGroupAddTask(xCGroup, xTask)
        /\ UNCHANGED <<kernelVars, pidVars, ipcVars, envVars, ctVars>>

CGroupRemoveTaskHandle ==
    \E xCGroup \in CGroupSlots, xTask \in TaskHandles :
        /\ xCGroupRemoveTask(xCGroup, xTask)
        /\ UNCHANGED <<kernelVars, pidVars, ipcVars, envVars, ctVars>>

NextCGroupMap ==
    \/ CGroupCreate
    \/ CGroupDelete
    \/ CGroupAddTaskHandle
    \/ CGroupRemoveTaskHandle

SpecCGroupMap == Init /\ [][NextCGroupMap]_vars

(***************************************************************************)
(* Memory accounting of the cgroup controller: tasks in cgroups with and  *)
(* without a memory limit ask whether a size fits and report what they    *)
(* took and gave back.  The charge of a cgroup is kept below              *)
(* MaxMemoryUsed.                                                          *)
(***************************************************************************)
CGroupCreateWithMemoryLimit ==
    \E ulMemoryLimit \in FiniteMemoryLimits \cup {CGROUP_NO_LIMIT} :
        /\ xCGroupCreate(ulMemoryLimit, CGROUP_CPU_QUOTA_MAX)
        /\ UNCHANGED <<kernelVars, pidVars, ipcVars, envVars, ctVars>>

CGroupCheckMemoryLimit ==
    \E xTask \in AliveTasks \cup {NULL}, ulSize \in MemorySizes :
        /\ xLastCall' = [op |-> "CheckMemoryLimit", ulContainerID |-> 0,
                         xResult |-> xCGroupCheckMemoryLimit(xTask, ulSize)]
        /\ UNCHANGED <<pxContainerList, ulNextContainerID, xContainerMutex,
                       pcCaller, xTaskParams, kernelVars, pidVars, ipcVars,
                       cgVars, envVars>>

CGroupUpdateMemoryUsage ==
    \E xTask \in AliveTasks \cup {NULL}, lMemoryDelta \in MemoryDeltas :
        /\ \A xCGroup \in CGroupSlots :
               xCGroups[xCGroup].ulMemoryUsed + lMemoryDelta <= MaxMemoryUsed
        /\ xCGroupUpdateMemoryUsage(xTask, lMemoryDelta)
        /\ UNCHANGED <<kernelVars, pidVars, ipcVars, envVars, ctVars>>

NextCGroupMemory ==
    \/ TaskCreate
    \/ CGroupCreateWithMemoryLimit
    \/ CGroupAddTask
    \/ CGroupCheckMemoryLimit
    \/ CGroupUpdateMemoryUsage

SpecCGroupMemory == Init /\ [][NextCGroupMemory]_vars

(***************************************************************************)
(* The three controllers side by side: groups and namespaces are created, *)
(* filled and deleted.                                                     *)
(***************************************************************************)
NextGroups ==
    \/ TaskCreate
    \/ CGroupCreateNoLimit
    \/ CGroupAddTask
    \/ CGroupDelete
    \/ PidCreate
    \/ PidAddTask
    \/ PidDelete
    \/ IpcCreate
    \/ IpcRegister
    \/ IpcDelete

SpecGroups == Init /\ [][NextGroups]_vars

(***************************************************************************)
(* The container manager with the container-create command of the CLI     *)
(* among its callers: containers are created, started and deleted.        *)
(***************************************************************************)
ContainerCreateCommand ==
    \E xCaller \in Callers, ulMemoryLimit \in ContainerMemoryLimits,
       ulCpuQuota \in ContainerCpuQuotas :
        /\ pcCaller[xCaller].pc = "idle"
        /\ ulNextContainerID <= MaxContainerId
        /\ xContainerCreateCommand(xCaller, ulMemoryLimit, ulCpuQuota)

ContainerCreateCommandUnpack ==
    \E xCaller \in Callers, xUnpacked \in BOOLEAN :
        xContainerCreateCommandUnpack(xCaller, xUnpacked)

NextContainerCli ==
    \/ ContainerCreate
    \/ ContainerStart
    \/ ContainerDelete
    \/ ContainerCreateCommand
    \/ ContainerCreateCommandUnpack

SpecContainerCli == Init /\ [][NextContainerCli]_vars

(***************************************************************************)
(* The container-create command of the CLI with its image                  *)
(* (xContainerCreateCommand from the call of xContainerUnpackImage on).    *)
(* The command runs in the CLI task, whose root path is "/".  It unpacks   *)
(* /var/container/images/<name> for the id ulNextContainerID - 1; when     *)
(* that fails it takes ulNextContainerID back by one and deletes the       *)
(* container with that id, in a step of its own.                           *)
(***************************************************************************)
xContainerCreateCommandUnpackImage(xCaller, pcImageName) ==
    LET ulContainerID == ulNextContainerID - 1
        image_path == prvFilePath(pcImagesDir, pcImageName)
        r == xContainerUnpackImage(xVolume, pcRootDir, image_path, ulContainerID,
                                   "none")
    IN  /\ pcCaller[xCaller].pc = "unpack"
        /\ xVolume' = r.vol
        /\ xFsCall' = [op |-> "xContainerUnpackImage",
                       ulContainerID |-> ulContainerID,
                       pcImagePath |-> image_path, xReturn |-> r.xReturn]
        /\ pcCaller' = [pcCaller EXCEPT ![xCaller] =
                           IF r.xReturn
                           THEN IdleCaller
                           ELSE [pc |-> "unpackFailed", ulContainerID |-> 0]]
        /\ UNCHANGED <<pxContainerList, ulNextContainerID, xContainerMutex,
                       xTaskParams, xLastCall, kernelVars, pidVars, ipcVars,
                       cgVars, xTickCount, tmp_path>>

xContainerCreateCommandUnpackFailed(xCaller) ==
    /\ pcCaller[xCaller].pc = "unpackFailed"
    /\ ulNextContainerID' = ulNextContainerID - 1
    /\ IF xContainerMutex = NULL
       THEN xContainerDeleteLocked(xCaller, ulNextContainerID - 1)
       ELSE /\ pcCaller' = [pcCaller EXCEPT ![xCaller] =
                               [pc |-> "deleteWait",
                                ulContainerID |-> ulNextContainerID - 1]]
            /\ UNCHANGED <<pxContainerList, xContainerMutex, xTaskParams,
                           xLastCall, kernelVars, pidVars, ipcVars,
                           cgVars, envVars>>

(***************************************************************************)
(* Specification of path rewriting: a task with root path R passes path P  *)
(* to a wrapper of xLfsOps.  The volume holds the file /a and the          *)
(* directory /b, as vFileSystemExampleTask sets up /test.txt and /tmp.     *)
(***************************************************************************)
chA == 97
chB == 98
PathChars == {chSlash, chA, chB}
PathStrings == UNION {[1..n -> PathChars] : n \in 0..MaxPathChars}

\* Root paths: "/" or an absolute path, with or without a trailing slash.
RootPaths ==
    {pc \in PathStrings :
        /\ pc # <<>>
        /\ pc[1] = chSlash
        /\ \A i \in 1..(Len(pc) - 1) : ~(pc[i] = chSlash /\ pc[i + 1] = chSlash)}

ExampleVolume ==
    (<<<<chA>>>> :> lfsRegNode(<<chA>>)) @@ (<<<<chB>>>> :> lfsDirNode) @@
    FormattedVolume

InitPath ==
    /\ InitControllers
    /\ xVolume = ExampleVolume
    /\ \E root_path \in RootPaths, path \in PathStrings :
           xFsCall = [op |-> "none", root_path |-> root_path, path |-> path]

FsBuildFullPath ==
    /\ xFsCall.op = "none"
    /\ xFsCall' = [op |-> "fs_build_full_path", root_path |-> xFsCall.root_path,
                   path |-> xFsCall.path,
                   full_path |-> fs_build_full_path(xFsCall.root_path, xFsCall.path,
                                                    configMAX_PATH_LEN)]
    /\ UNCHANGED <<kernelVars, pidVars, ipcVars, cgVars, xTickCount, ctVars, xVolume,
                   tmp_path>>

FsStat ==
    /\ xFsCall.op = "none"
    /\ xFsCall' = [op |-> "fs_stat_wrapper", root_path |-> xFsCall.root_path,
                   path |-> xFsCall.path,
                   err |-> fs_stat_wrapper(xVolume, xFsCall.root_path,
                                           xFsCall.path).err]
    /\ UNCHANGED <<kernelVars, pidVars, ipcVars, cgVars, xTickCount, ctVars, xVolume,
                   tmp_path>>

NextPath ==
    \/ FsBuildFullPath
    \/ FsStat

SpecPath == InitPath /\ [][NextPath]_vars

(***************************************************************************)
(* The path wrappers one statement at a time.  Every wrapper that takes a  *)
(* path calls fs_build_full_path with the one static buffer tmp_path and   *)
(* then hands the returned pointer to littlefs; the task can be preempted  *)
(* between the two.  The tasks are the callers; the root path of a task,   *)
(* kept in its TCB by xTaskChroot, is the root_path field of the caller    *)
(* and "/" before the first chroot.                                        *)
(***************************************************************************)
pvTaskGetRootPath(xCaller) ==
    IF "root_path" \in DOMAIN pcCaller[xCaller]
    THEN pcCaller[xCaller].root_path
    ELSE pcRootDir

xTaskChroot(xCaller, root_path) ==
    /\ pcCaller[xCaller].pc = "idle"
    /\ pcCaller' = [pcCaller EXCEPT ![xCaller] =
                       [pc |-> "idle", ulContainerID |-> 0, root_path |-> root_path]]
    /\ UNCHANGED <<pxContainerList, ulNextContainerID, xContainerMutex, xTaskParams,
                   xLastCall, kernelVars, pidVars, ipcVars, cgVars, envVars>>

\* fs_build_full_path returns the caller's own string instead of the
\* buffer when the path is absolute and the root is "/".
fsReturnsPath(root_path, path) ==
    path # <<>> /\ path[1] = chSlash /\ root_path = pcRootDir

\* A path wrapper up to the return of fs_build_full_path.
fs_wrapper_build(xCaller, op, path) ==
    LET root_path == pvTaskGetRootPath(xCaller)
    IN  /\ pcCaller[xCaller].pc = "idle"
        /\ tmp_path' = IF fsReturnsPath(root_path, path)
                       THEN tmp_path
                       ELSE fs_build_full_path(root_path, path, configMAX_PATH_LEN)
        /\ pcCaller' = [pcCaller EXCEPT ![xCaller] =
                           [pc |-> "built", ulContainerID |-> 0,
                            root_path |-> root_path, op |-> op, path |-> path,
                            full_path |-> IF fsReturnsPath(root_path, path)
                                          THEN "path" ELSE "tmp_path"]]
        /\ UNCHANGED <<pxContainerList, ulNextContainerID, xContainerMutex,
                       xTaskParams, xLastCall, kernelVars, pidVars, ipcVars, cgVars,
                       xTickCount, xVolume, xFsCall>>

lfs_dir_open(vol, path) ==
    LET k == lfsComponents(path)
    IN  [err |-> IF lfsIsDir(vol, k) THEN "LFS_ERR_OK"
                 ELSE IF k \in DOMAIN vol THEN "LFS_ERR_NOTDIR"
                 ELSE "LFS_ERR_NOENT"]

\* The call of littlefs with the pointer fs_build_full_path returned.
fs_wrapper_call(xCaller) ==
    LET op == pcCaller[xCaller].op
        full_path == IF pcCaller[xCaller].full_path = "tmp_path"
                     THEN tmp_path
                     ELSE pcCaller[xCaller].path
        r == CASE op = "stat" -> lfs_stat(xVolume, full_path)
               [] op = "file_open" -> lfs_file_open_rdonly(xVolume, full_path)
               [] op = "dir_open" -> lfs_dir_open(xVolume, full_path)
               [] op = "mkdir" -> lfs_mkdir(xVolume, full_path)
               [] op = "remove" -> lfs_remove(xVolume, full_path)
    IN  /\ pcCaller[xCaller].pc = "built"
        /\ xVolume' = IF op \in {"mkdir", "remove"} THEN r.vol ELSE xVolume
        /\ xFsCall' = [op |-> op, xCaller |-> xCaller, full_path |-> full_path]
        /\ pcCaller' = [pcCaller EXCEPT ![xCaller] =
                           [pc |-> "idle", ulContainerID |-> 0,
                            root_path |-> pcCaller[xCaller].root_path]]
        /\ UNCHANGED <<pxContainerList, ulNextContainerID, xContainerMutex,
                       xTaskParams, xLastCall, kernelVars, pidVars, ipcVars, cgVars,
                       xTickCount, tmp_path>>

(***************************************************************************)
(* Specification of concurrent file-system calls: the tasks change their   *)
(* root path and call the path wrappers, preempting one another between    *)
(* the statements of a wrapper.                                            *)
(***************************************************************************)
RaceRootPaths == {pcRootDir, <<chSlash, chB>>}
RacePaths == {<<chSlash, chA>>, <<chB>>}
RaceOps == {"stat", "file_open", "dir_open", "mkdir", "remove"}

InitPathRace ==
    /\ InitControllers
    /\ xVolume = ExampleVolume
    /\ xFsCall = NoFsCall

TaskChroot ==
    \E xCaller \in Callers, root_path \in RaceRootPaths :
        xTaskChroot(xCaller, root_path)

FsWrapperBuild ==
    \E xCaller \in Callers, op \in RaceOps, path \in RacePaths :
        fs_wrapper_build(xCaller, op, path)

FsWrapperCall == \E xCaller \in Callers : fs_wrapper_call(xCaller)

NextPathRace ==
    \/ TaskChroot
    \/ FsWrapperBuild
    \/ FsWrapperCall

SpecPathRace == InitPathRace /\ [][NextPathRace]_vars

(***************************************************************************)
(* Specification of packing and unpacking: a task whose root path is "/"   *)
(* packs container directories into images under /var/container/images and *)
(* unpacks images into container directories.  The directory of container  *)
(* 1 starts with any of a set of contents; a file name may have the full    *)
(* 255 bytes.  An image of no files is on the volume from the start.        *)
(***************************************************************************)
pcLongName == [i \in 1..LFS_NAME_MAX |-> chA]
ImageFileNames == {<<chA>>, <<chB>>, pcLongName}
ImageFileData == {<<>>, <<0>>, <<chA, ByteModulus - 1>>}
ImageDirectories ==
    UNION {[xNames -> ImageFileData] :
              xNames \in {x \in SUBSET ImageFileNames : Cardinality(x) <= MaxDirFiles}}

pcImageA == prvFilePath(pcImagesDir, <<chA>>)
pcImageB == prvFilePath(pcImagesDir, <<chB>>)
pcImageZero == prvFilePath(pcImagesDir, <<chZero>>)
ImagePaths == {pcImageA, pcImageB}

\* The volume with /var/container/images, the zero-file image and the
\* directory of container 1 holding the files of xDirectory.
ImageVolume(xDirectory) ==
    LET kDir == lfsComponents(prvContainerDir(1))
    IN  [k \in {Append(kDir, pcName) : pcName \in DOMAIN xDirectory} |->
            lfsRegNode(xDirectory[k[Len(k)]])] @@
        (kDir :> lfsDirNode) @@
        (lfsComponents(pcImageZero) :> lfsRegNode(<<0>>)) @@
        (lfsComponents(pcImagesDir) :> lfsDirNode) @@
        (lfsComponents(pcVarContainerDir) :> lfsDirNode) @@
        (lfsComponents(pcVarDir) :> lfsDirNode) @@
        FormattedVolume

InitImage ==
    /\ InitControllers
    /\ xFsCall = NoFsCall
    /\ \E xDirectory \in ImageDirectories : xVolume = ImageVolume(xDirectory)

ImageUnchanged ==
    UNCHANGED <<kernelVars, pidVars, ipcVars, cgVars, xTickCount, ctVars, tmp_path>>

ImagePack ==
    \E ulContainerID \in ContainerIds, pcImagePath \in ImagePaths :
        LET r == xContainerPackImage(xVolume, pcRootDir, ulContainerID, pcImagePath)
        IN  /\ xVolume' = r.vol
            /\ xFsCall' = [op |-> "xContainerPackImage",
                           ulContainerID |-> ulContainerID,
                           pcImagePath |-> pcImagePath, xReturn |-> r.xReturn]
            /\ ImageUnchanged

ImageUnpack ==
    \E ulContainerID \in ContainerIds, pcImagePath \in ImagePaths \cup {pcImageZero} :
        LET r == xContainerUnpackImage(xVolume, pcRootDir, pcImagePath,
                                       ulContainerID, "none")
        IN  /\ xVolume' = r.vol
            /\ xFsCall' = [op |-> "xContainerUnpackImage",
                           ulContainerID |-> ulContainerID,
                           pcImagePath |-> pcImagePath, xReturn |-> r.xReturn]
            /\ ImageUnchanged

NextImage ==
    \/ ImagePack
    \/ ImageUnpack

SpecImage == InitImage /\ [][NextImage]_vars

(***************************************************************************)
(* Specification of unpacking under failures: the images directory also    *)
(* holds an image that ends before the files its header announces, and     *)
(* the allocation of the buffer, the opening of an output file or the      *)
(* write to it may fail.                                                   *)
(***************************************************************************)
pcImageShort == prvFilePath(pcImagesDir, <<chA, chA>>)

\* Images cut off in the count, in a size, in a name, in a payload and
\* before their second file.
DamagedImages ==
    {<<>>,
     <<1>>,
     <<1>> \o prvWriteSize(2, imageSizeLen),
     <<1>> \o prvWriteSize(2, imageSizeLen) \o prvWriteName(<<chA>>) \o <<chA>>,
     <<2>> \o prvWriteSize(1, imageSizeLen) \o prvWriteName(<<chA>>) \o <<chA>>}

UnpackFaults == {"none", "malloc", "open", "write"}

\* The directories of container 1 this specification starts from: two
\* files with short names.
FaultDirectories == [{<<chA>>, <<chB>>} -> ImageFileData]

InitImageFault ==
    /\ InitControllers
    /\ xFsCall = NoFsCall
    /\ \E xDirectory \in FaultDirectories, aucImage \in DamagedImages :
           xVolume = (lfsComponents(pcImageShort) :> lfsRegNode(aucImage)) @@
                     ImageVolume(xDirectory)

ImageUnpackFault ==
    \E ulContainerID \in ContainerIds,
       pcImagePath \in ImagePaths \cup {pcImageZero, pcImageShort},
       xFault \in UnpackFaults :
        LET r == xContainerUnpackImage(xVolume, pcRootDir, pcImagePath,
                                       ulContainerID, xFault)
        IN  /\ xVolume' = r.vol
            /\ xFsCall' = [op |-> "xContainerUnpackImage",
                           ulContainerID |-> ulContainerID,
                           pcImagePath |-> pcImagePath, xReturn |-> r.xReturn]
            /\ ImageUnchanged

NextImageFault ==
    \/ ImagePack
    \/ ImageUnpackFault

SpecImageFault == InitImageFault /\ [][NextImageFault]_vars

(***************************************************************************)
(* Specification of packing around the capacity of the file counter: the   *)
(* directory of container 1 starts with any number of files up to twice    *)
(* the number of values of the counter, all with the same contents.        *)
(***************************************************************************)
pcCountedName(i) == <<chA + (i % 16), chA + (i \div 16)>>

CountedDirectory(n, data) == [pcName \in {pcCountedName(i) : i \in 1..n} |-> data]

InitImageCount ==
    /\ InitControllers
    /\ xFsCall = NoFsCall
    /\ \E n \in 0..(2 * ucNumFilesModulus), data \in {<<>>, <<chA>>} :
           xVolume = ImageVolume(CountedDirectory(n, data))

SpecImageCount == InitImageCount /\ [][NextImage]_vars

(***************************************************************************)
(* Specification of the CLI commands container-create and container-delete *)
(* on a volume: /var/container/images holds the image "a" of a container   *)
(* directory and the image "0" of no files, and no container directory     *)
(* exists.  The commands name the image "a", "0" or "b", which is missing. *)
(***************************************************************************)
CliDirectories ==
    UNION {[xNames -> ImageFileData] :
              xNames \in (SUBSET {<<chA>>, <<chB>>}) \ {{}}}

CliVolume(xDirectory) ==
    LET packed == xContainerPackImage(ImageVolume(xDirectory), pcRootDir, 1,
                                      pcImageA).vol
        kDir == lfsComponents(prvContainerDir(1))
        xKept == {k \in DOMAIN packed :
                     ~(Len(k) >= Len(kDir) /\ SubSeq(k, 1, Len(kDir)) = kDir)}
    IN  [k \in xKept |-> packed[k]]

InitCliImage ==
    /\ InitControllers
    /\ xFsCall = NoFsCall
    /\ \E xDirectory \in CliDirectories : xVolume = CliVolume(xDirectory)

ContainerCreateCommandUnpackImage ==
    \E xCaller \in Callers, pcImageName \in {<<chA>>, <<chB>>, <<chZero>>} :
        xContainerCreateCommandUnpackImage(xCaller, pcImageName)

ContainerCreateCommandUnpackFailed ==
    \E xCaller \in Callers : xContainerCreateCommandUnpackFailed(xCaller)

NextCliImage ==
    \/ ContainerCreateCommand
    \/ ContainerCreateCommandUnpackImage
    \/ ContainerCreateCommandUnpackFailed
    \/ ContainerDelete

SpecCliImage == InitCliImage /\ [][NextCliImage]_vars

(***************************************************************************)
(* Properties of the IPC namespace controller, checked under SpecIpc.      *)
(***************************************************************************)
\* The namespace a task acts in: a task with no IPC namespace acts in root.
IpcNamespaceOfTask(xTask) ==
    IF tcb[xTask].xIpcNamespace = NULL
    THEN xIpcRootNamespace
    ELSE tcb[xTask].xIpcNamespace

IpcEntriesOfObject(pvIpcObject) ==
    {ux \in IpcEntryIdx : xIpcObjectEntries[ux].pvIpcObject = pvIpcObject}

\* The owner recorded in the first registry entry of a registered object.
IpcOwnerOfObject(pvIpcObject) ==
    xIpcObjectEntries[Min(IpcEntriesOfObject(pvIpcObject))].xNamespace

C3_AddedTaskIsFound ==
    \A xTask \in AliveTasks :
        pvTaskGetPidNamespace(tcb, xTask) # NULL =>
            xPidNamespaceFindTaskByVirtualPid(pvTaskGetPidNamespace(tcb, xTask),
                                              uxTaskGetVirtualPid(tcb, xTask)) = xTask

(***************************************************************************)
(* Properties of the cgroup controller, checked under SpecSched (C4) and   *)
(* SpecCGroup (C5).                                                        *)
(***************************************************************************)
FiniteQuota(xCGroup) ==
    /\ xCGroups[xCGroup].xActive
    /\ xCGroups[xCGroup].ulTicksQuota # CGROUP_NO_LIMIT

QuotaEnforced(xCGroup) ==
    FiniteQuota(xCGroup) =>
        /\ xCGroups[xCGroup].ulTicksUsed <= xCGroups[xCGroup].ulTicksQuota
        /\ xCGroups[xCGroup].ulPenaltyTicksLeft = 0

\* C4 as stated: when only admitted tasks run at a tick, every cgroup with a
\* finite quota has ticks-used <= quota and no penalty, in every state.
C4_QuotaEnforced == \A xCGroup \in CGroupSlots : QuotaEnforced(xCGroup)

\* No penalty is pending and, when the quota is finite, it is not exceeded.
QuotaKept(xCGroup) ==
    xCGroups[xCGroup].xActive =>
        /\ xCGroups[xCGroup].ulPenaltyTicksLeft = 0
        /\ \/ xCGroups[xCGroup].ulTicksQuota = CGROUP_NO_LIMIT
           \/ xCGroups[xCGroup].ulTicksUsed <= xCGroups[xCGroup].ulTicksQuota

\* The step sets the quota of the cgroup below the ticks it has used.
QuotaLoweredBelowUse(xCGroup) ==
    /\ xCGroups[xCGroup].xActive
    /\ xCGroups'[xCGroup].xActive
    /\ xCGroups'[xCGroup].ulTicksQuota # xCGroups[xCGroup].ulTicksQuota
    /\ xCGroups'[xCGroup].ulTicksQuota < xCGroups[xCGroup].ulTicksUsed

\* C4 amended: when only admitted tasks run at a tick, every step keeps the
\* penalty of a cgroup at 0 and its ticks-used within a finite quota, except
\* a step that sets the quota below the ticks already used in the window.
C4_QuotaEnforcedUnlessLowered ==
    [][\A xCGroup \in CGroupSlots :
          (QuotaKept(xCGroup) /\ ~QuotaLoweredBelowUse(xCGroup))
              => QuotaKept(xCGroup)']_vars

\* A cgroup that has used its whole quota, with a live task the scheduler
\* must skip.
C4_Witness ==
    \E xCGroup \in CGroupSlots, xTask \in AliveTasks :
        /\ FiniteQuota(xCGroup)
        /\ xCGroups[xCGroup].ulTicksQuota > 0
        /\ xCGroups[xCGroup].ulTicksUsed = xCGroups[xCGroup].ulTicksQuota
        /\ xCGroups[xCGroup].ulPenaltyTicksLeft = 0
        /\ prvGetCGroupFromTask(xTask) = xCGroup
        /\ ~prvCGroupCanTaskRun(xTask)

\* C5: prvCGroupCanTaskRun is true exactly when the task is bound to no
\* cgroup, or its cgroup has no penalty left and either an unlimited CPU
\* quota or ticks-used below the quota.
C5_CanTaskRunRule ==
    \A xTask \in Tasks :
        prvCGroupCanTaskRun(xTask) <=>
            \/ xCGroupGetTaskGroup(xTask) = NULL
            \/ /\ xCGroups[xCGroupGetTaskGroup(xTask)].ulPenaltyTicksLeft = 0
               /\ \/ xCGroups[xCGroupGetTaskGroup(xTask)].ulCpuQuota
                         \in {CGROUP_CPU_QUOTA_MAX, CGROUP_NO_LIMIT}
                  \/ xCGroups[xCGroupGetTaskGroup(xTask)].ulTicksUsed
                         < xCGroups[xCGroupGetTaskGroup(xTask)].ulCpuQuota

\* A task refused for a penalty alone, and a task refused for the quota alone.
C5_Witness ==
    /\ \E xTask \in Tasks :
           /\ xCGroupGetTaskGroup(xTask) # NULL
           /\ xCGroups[xCGroupGetTaskGroup(xTask)].ulPenaltyTicksLeft > 0
           /\ xCGroups[xCGroupGetTaskGroup(xTask)].ulTicksUsed
                  < xCGroups[xCGroupGetTaskGroup(xTask)].ulCpuQuota
           /\ ~prvCGroupCanTaskRun(xTask)
    /\ \E xTask \in Tasks :
           /\ xCGroupGetTaskGroup(xTask) # NULL
           /\ xCGroups[xCGroupGetTaskGroup(xTask)].ulPenaltyTicksLeft = 0
           /\ xCGroups[xCGroupGetTaskGroup(xTask)].ulCpuQuota > 0
           /\ xCGroups[xCGroupGetTaskGroup(xTask)].ulTicksUsed
                  >= xCGroups[xCGroupGetTaskGroup(xTask)].ulCpuQuota
           /\ ~prvCGroupCanTaskRun(xTask)

(***************************************************************************)
(* Properties of the container manager, checked under SpecContainer and,   *)
(* for termination, under FairSpecContainer.                               *)
(***************************************************************************)
\* The state of the container with the id in a list, "NONE" when absent.
ContainerState(list, ulContainerID) ==
    LET hit == {i \in 1..Len(list) : list[i].ulContainerID = ulContainerID}
    IN  IF hit = {} THEN "NONE" ELSE list[Min(hit)].eState

\* C6: every container in the list that is not in ERROR has a cgroup, a PID
\* namespace and an IPC namespace (creation is all-or-nothing).
C6_ListedContainersComplete ==
    \A i \in ContainerIndices :
        pxContainerList[i].eState # "ERROR" =>
            /\ pxContainerList[i].xCGroup # NULL
            /\ pxContainerList[i].xPidNamespace # NULL
            /\ pxContainerList[i].xIpcNamespace # NULL

StartStep(ulContainerID) ==
    \E xNewTask \in FreeTaskHandles \cup {NULL} :
        xContainerStart(ulContainerID, xNewTask)

StopStep(ulContainerID) ==
    \E xFrees \in BOOLEAN : xContainerStop(ulContainerID, xFrees)

DaemonStep ==
    \E xFreedReadAsDeleted \in SUBSET Tasks :
        vContainerDaemonTask(xFreedReadAsDeleted)

C8_DeleteReturns ==
    \A xCaller \in Callers :
        (pcCaller[xCaller].pc = "stopWait") ~> (pcCaller[xCaller].pc = "idle")

\* C9: when no manager call is under way, every cgroup slot and every
\* non-root namespace slot in use belongs to a container of the list: the
\* slots of a deleted container are free again.
C9_DeletedSlotsFree ==
    (\A xCaller \in Callers : pcCaller[xCaller].pc = "idle") =>
        /\ \A g \in uxCGroupBitmap :
               \E i \in ContainerIndices : pxContainerList[i].xCGroup = g
        /\ \A n \in uxPidNamespaceBitmap \ {xPidRootNamespace} :
               \E i \in ContainerIndices : pxContainerList[i].xPidNamespace = n
        /\ \A n \in uxIpcNamespaceBitmap \ {xIpcRootNamespace} :
               \E i \in ContainerIndices : pxContainerList[i].xIpcNamespace = n

\* C10: xContainerStop on a RUNNING container returns success and leaves
\* it STOPPED with no task handle and its task deleted; on any other
\* container or an unknown id it returns failure and changes nothing.
C10_StopRule ==
    [][\A ulContainerID \in ContainerIds, xFrees \in BOOLEAN :
          xContainerStop(ulContainerID, xFrees) =>
              LET i == pxContainerGetByID(ulContainerID)
              IN  IF ContainerState(pxContainerList, ulContainerID) = "RUNNING"
                  THEN /\ xLastCall'.xResult
                       /\ Len(pxContainerList') = Len(pxContainerList)
                       /\ pxContainerList'[i].ulContainerID = ulContainerID
                       /\ pxContainerList'[i].eState = "STOPPED"
                       /\ pxContainerList'[i].xTaskHandle = NULL
                       /\ tcb'[pxContainerList[i].xTaskHandle].state # "alive"
                  ELSE /\ ~xLastCall'.xResult
                       /\ UNCHANGED <<pxContainerList, ulNextContainerID,
                                      xContainerMutex, pcCaller, xTaskParams,
                                      kernelVars, pidVars, ipcVars, cgVars>>]_vars

\* Stop has just returned success for a container whose task was alive: the
\* container is STOPPED without a handle and the TCB is free.
C10_Witness ==
    /\ xLastCall.op = "Stop"
    /\ xLastCall.xResult
    /\ ContainerState(pxContainerList, xLastCall.ulContainerID) = "STOPPED"
    /\ \A i \in ContainerIndices : pxContainerList[i].xTaskHandle = NULL
    /\ \A xTask \in Tasks : tcb[xTask].state = "free"
    /\ xTaskCGroupMap # <<>>

\* C11: the container id counter never decreases, and a container that
\* enters the list carries an id the counter had not yet reached before the
\* step and has passed after it; so no id is assigned twice.
C11_IdsNeverReused ==
    [][/\ ulNextContainerID' >= ulNextContainerID
       /\ \A j \in 1..Len(pxContainerList') :
              (\A i \in ContainerIndices :
                   pxContainerList[i].ulContainerID
                       # pxContainerList'[j].ulContainerID) =>
                  /\ pxContainerList'[j].ulContainerID >= ulNextContainerID
                  /\ pxContainerList'[j].ulContainerID < ulNextContainerID']_vars

\* C12: when no manager call is under way, a container has a task handle
\* exactly when its state is RUNNING or PAUSED.
C12_HandleIffRunning ==
    (\A xCaller \in Callers : pcCaller[xCaller].pc = "idle") =>
        \A i \in ContainerIndices :
            pxContainerList[i].xTaskHandle # NULL
                <=> pxContainerList[i].eState \in {"RUNNING", "PAUSED"}

\* C13: right after a pass of the daemon, a container is RUNNING exactly
\* when it has a task handle and the task behind the handle has not been
\* deleted.
C13_DaemonReconciles ==
    [][DaemonStep =>
          \A i \in 1..Len(pxContainerList') :
              pxContainerList'[i].eState = "RUNNING"
                  <=> /\ pxContainerList'[i].xTaskHandle # NULL
                      /\ tcb'[pxContainerList'[i].xTaskHandle].state = "alive"]_vars

IpcRootNamespaceActive ==
    /\ xIpcNamespaces[xIpcRootNamespace].xActive
    /\ xIpcRootNamespace \in uxIpcNamespaceBitmap

PidRootNamespaceActive ==
    /\ xPidNamespaces[xPidRootNamespace].xActive
    /\ xPidRootNamespace \in uxPidNamespaceBitmap

\* C14: in every reachable state, whatever deletes were called, the root
\* PID namespace and the root IPC namespace are active and their slots are
\* marked in use.
C14_RootNamespacesStay == IpcRootNamespaceActive /\ PidRootNamespaceActive

\* C15: a delete of a cgroup that holds tasks, of a PID namespace that
\* holds tasks or of an IPC namespace that holds objects returns failure
\* and leaves the tables of its controller (active flags, slot bitmap,
\* counts, map and registry entries) as they were.
C15_NonEmptyDeleteFails ==
    [][/\ \A xCGroup \in CGroupSlots :
              (xCGroups[xCGroup].uxTaskCount > 0 /\ xCGroupDelete(xCGroup)) =>
                  (~xCGroupDeleteRet(xCGroup) /\ UNCHANGED cgVars)
       /\ \A xNamespace \in PidSlots :
              (/\ xPidNamespaces[xNamespace].uxTaskCount > 0
               /\ xPidNamespaceDelete(xNamespace)) =>
                  (/\ ~xPidNamespaceDeleteRet(xPidNamespaces, xNamespace)
                   /\ UNCHANGED pidVars)
       /\ \A xNamespace \in IpcSlots :
              (/\ xIpcNamespaces[xNamespace].uxObjectCount > 0
               /\ xIpcNamespaceDelete(xNamespace)) =>
                  (/\ ~xIpcNamespaceDeleteRet(xNamespace)
                   /\ UNCHANGED ipcVars)]_vars

\* An active cgroup with a task, an active PID namespace with a task and
\* an active IPC namespace with an object, each open to a delete.
C15_Witness ==
    /\ \E xCGroup \in uxCGroupBitmap :
           /\ xCGroups[xCGroup].xActive
           /\ xCGroups[xCGroup].uxTaskCount > 0
           /\ prvGetCGroupFromTask(Min(AliveTasks)) = xCGroup
    /\ \E xNamespace \in uxPidNamespaceBitmap :
           /\ xPidNamespaces[xNamespace].xActive
           /\ xPidNamespaces[xNamespace].uxTaskCount > 0
    /\ \E xNamespace \in uxIpcNamespaceBitmap \ {xIpcRootNamespace} :
           /\ xIpcNamespaces[xNamespace].xActive
           /\ xIpcNamespaces[xNamespace].uxObjectCount > 0

\* C16: when every task is created with xTaskCreateInNamespace, no task
\* runs unbound: a call whose binding failed has deleted the task it
\* created, so every live task is bound to a PID namespace.
C16_NoUnboundTask ==
    \A xTask \in AliveTasks : pvTaskGetPidNamespace(tcb, xTask) # NULL

\* C17: after every step each task handle has at most one entry in the
\* task-to-cgroup map; and xCGroupAddTask for a task that already has an
\* entry, or when the map is full, returns failure and leaves the map, the
\* task counts and the rest of the cgroup tables as they were.
C17_OneCGroupPerTask ==
    [][/\ \A ux1, ux2 \in 1..Len(xTaskCGroupMap') :
              xTaskCGroupMap'[ux1].xTask = xTaskCGroupMap'[ux2].xTask => ux1 = ux2
       /\ \A xCGroup \in CGroupSlots, xTask \in TaskHandles :
              (/\ \/ prvGetCGroupFromTask(xTask) # NULL
                  \/ uxMapCount >= uxMapCapacity
               /\ xCGroupAddTask(xCGroup, xTask)) =>
                  (~xCGroupAddTaskRet(xCGroup, xTask) /\ UNCHANGED cgVars)]_vars

\* The map is full, one entry per task, and a task without an entry is
\* left to ask for one in an active cgroup.
C17_Witness ==
    /\ uxMapCount = uxMapCapacity
    /\ \E xTask \in TaskHandles : prvGetCGroupFromTask(xTask) = NULL
    /\ \E xCGroup \in CGroupSlots :
           xCGroups[xCGroup].xActive /\ xCGroups[xCGroup].uxTaskCount = uxMapCapacity

\* C18: while a PID namespace stays active its next-virtual-pid never
\* decreases; a task that becomes bound to the namespace gets the value of
\* next-virtual-pid, which is at most max-virtual-pid and is then raised by
\* one, so the PIDs handed out are 1, 2, 3, ... and none comes twice; and
\* once next-virtual-pid has passed max-virtual-pid every add fails.
C18_VirtualPidsMonotone ==
    [][\A xNamespace \in PidSlots :
          /\ (/\ xPidNamespaces[xNamespace].xActive
               /\ xPidNamespaces'[xNamespace].xActive) =>
                  xPidNamespaces'[xNamespace].ulNextPid
                      >= xPidNamespaces[xNamespace].ulNextPid
          /\ \A xTask \in Tasks :
                 (/\ pvTaskGetPidNamespace(tcb', xTask) = xNamespace
                  /\ pvTaskGetPidNamespace(tcb, xTask) # xNamespace) =>
                     /\ uxTaskGetVirtualPid(tcb', xTask)
                            = xPidNamespaces[xNamespace].ulNextPid
                     /\ uxTaskGetVirtualPid(tcb', xTask) \in VirtualPids
                     /\ xPidNamespaces'[xNamespace].ulNextPid
                            = xPidNamespaces[xNamespace].ulNextPid + 1
          /\ xPidNamespaces[xNamespace].ulNextPid > MaxVirtualPid =>
                 \A xTask \in Tasks :
                     ~xPidNamespaceAddTask(xPidNamespaces, tcb,
                                           xNamespace, xTask).ret]_vars

\* A namespace that has handed out every PID and lost a task since, with a
\* live unbound task left to ask for a PID.
C18_Witness ==
    \E xNamespace \in PidSlots :
        /\ xPidNamespaces[xNamespace].xActive
        /\ xPidNamespaces[xNamespace].ulNextPid > MaxVirtualPid
        /\ xPidNamespaces[xNamespace].uxTaskCount < MaxVirtualPid
        /\ \E xTask \in AliveTasks : pvTaskGetPidNamespace(tcb, xTask) = NULL
        /\ \E xTask \in AliveTasks :
               /\ pvTaskGetPidNamespace(tcb, xTask) = xNamespace
               /\ uxTaskGetVirtualPid(tcb, xTask) = MaxVirtualPid

\* C19: xCGroupCheckMemoryLimit(task, size) is true exactly when the task
\* is bound to no cgroup, or its cgroup has no memory limit, or the exact
\* sum of memory-used and size is at most the limit.
C19_CheckMemoryExact ==
    \A xTask \in Tasks \cup {NULL}, ulSize \in MemorySizes :
        xCGroupCheckMemoryLimit(xTask, ulSize) <=>
            \/ xCGroupGetTaskGroup(xTask) = NULL
            \/ xCGroups[xCGroupGetTaskGroup(xTask)].ulMemoryLimit = CGROUP_NO_LIMIT
            \/ xCGroups[xCGroupGetTaskGroup(xTask)].ulMemoryUsed + ulSize
                   <= xCGroups[xCGroupGetTaskGroup(xTask)].ulMemoryLimit

\* C20: xCGroupUpdateMemoryUsage with a delta -k, k >= 0, leaves the
\* memory-used of the task's cgroup at 0 when k is greater than it and at
\* memory-used - k otherwise, and changes nothing else; for a task bound to
\* no cgroup it changes no cgroup.
C20_ReleaseClamps ==
    [][\A xTask \in Tasks \cup {NULL}, lMemoryDelta \in MemoryDeltas :
          (lMemoryDelta <= 0 /\ xCGroupUpdateMemoryUsage(xTask, lMemoryDelta)) =>
              IF xCGroupGetTaskGroup(xTask) = NULL
              THEN UNCHANGED cgVars
              ELSE LET xCGroup == xCGroupGetTaskGroup(xTask)
                       ulUsed == xCGroups[xCGroup].ulMemoryUsed
                   IN  /\ xCGroups' = [xCGroups EXCEPT ![xCGroup].ulMemoryUsed =
                              IF -lMemoryDelta > ulUsed THEN 0
                              ELSE ulUsed + lMemoryDelta]
                       /\ UNCHANGED <<uxCGroupBitmap, xTaskCGroupMap>>]_vars

\* A cgroup with tasks that was charged one byte and gave back more (no
\* release in MemoryDeltas is of one byte): its memory-used stands at 0
\* under a peak of 1.
C20_Witness ==
    \E xTask \in AliveTasks :
        /\ xCGroupGetTaskGroup(xTask) # NULL
        /\ xCGroups[xCGroupGetTaskGroup(xTask)].ulMemoryUsed = 0
        /\ xCGroups[xCGroupGetTaskGroup(xTask)].ulMemoryPeak = 1


(***************************************************************************)
(* C21.  Each isolated constructor is atomic.  When it returns an object,  *)
(* the registry holds exactly one entry for that object and the entry is   *)
(* owned by the IPC namespace of the calling task (the root namespace when *)
(* the task has none).  When it returns NULL, the object the kernel had    *)
(* created was given back to the kernel, and the registry entries, the     *)
(* object counts and the next object ids are what they were.               *)
(***************************************************************************)
IsolatedStep(xTask, pvNew) ==
    \/ xQueueCreateIsolated(xTask, pvNew)
    \/ xSemaphoreCreateBinaryIsolated(xTask, pvNew)
    \/ xSemaphoreCreateMutexIsolated(xTask, pvNew)

IsolatedAtomic(xTask, pvNew) ==
    LET pvReturned == xLastCall'.pvReturned
    IN  IF pvReturned # NULL
        THEN /\ pvReturned = pvNew
             /\ xLastCall'.pvDeleted = NULL
             /\ \E ux \in IpcEntryIdx :
                    /\ xIpcObjectEntries'[ux].pvIpcObject = pvReturned
                    /\ xIpcObjectEntries'[ux].xNamespace = prvIsolatedNamespace(xTask)
                    /\ \A uy \in IpcEntryIdx \ {ux} :
                           xIpcObjectEntries'[uy].pvIpcObject # pvReturned
        ELSE /\ xLastCall'.pvDeleted = pvNew
             /\ UNCHANGED ipcVars

StripTrailingSlash(pc) ==
    IF pc # <<>> /\ pc[Len(pc)] = chSlash THEN SubSeq(pc, 1, Len(pc) - 1) ELSE pc

StripLeadingSlash(pc) ==
    IF pc # <<>> /\ pc[1] = chSlash THEN Tail(pc) ELSE pc

C26_PathRewritten ==
    xFsCall.op = "fs_build_full_path" =>
        lfsComponents(xFsCall.full_path) =
            lfsComponents(IF xFsCall.root_path = pcRootDir
                          THEN xFsCall.path
                          ELSE StripTrailingSlash(xFsCall.root_path) \o
                               <<chSlash>> \o StripLeadingSlash(xFsCall.path))

(***************************************************************************)
(* Properties of packing and unpacking, checked under SpecImage.           *)
(***************************************************************************)
\* The regular files of a container's directory: the contents per name.
ImageFilesOf(vol, ulContainerID) ==
    LET k == lfsComponents(prvContainerDir(ulContainerID))
        xRegular == {c \in lfsChildren(vol, k) : vol[c].type = "LFS_TYPE_REG"}
    IN  [pcName \in {c[Len(c)] : c \in xRegular} |->
            [size |-> vol[Append(k, pcName)].size,
             data |-> vol[Append(k, pcName)].data]]

ImageDirExists(vol, ulContainerID) ==
    lfsIsDir(vol, lfsComponents(prvContainerDir(ulContainerID)))

ImageBytes(vol, pcImagePath) == vol[lfsComponents(pcImagePath)].data

PackJustPassed ==
    xFsCall.op = "xContainerPackImage" /\ xFsCall.xReturn

C23_ExistingDirUntouched ==
    [][(/\ xFsCall'.op = "xContainerUnpackImage"
        /\ ImageDirExists(xVolume, xFsCall'.ulContainerID))
       => (~xFsCall'.xReturn /\ xVolume' = xVolume)]_vars

\* An unpack of an image that holds files has failed on a directory that
\* exists and holds a file.
C23_Witness ==
    /\ xFsCall.op = "xContainerUnpackImage"
    /\ ~xFsCall.xReturn
    /\ lfsComponents(xFsCall.pcImagePath) \in DOMAIN xVolume
    /\ ImageBytes(xVolume, xFsCall.pcImagePath)[1] > 0
    /\ ImageDirExists(xVolume, xFsCall.ulContainerID)
    /\ DOMAIN ImageFilesOf(xVolume, xFsCall.ulContainerID) # {}

(***************************************************************************)
(* C24.  Zero-file images round-trip.  Packing a container directory with  *)
(* no regular file succeeds and writes an image of the single byte 0;      *)
(* unpacking an image of the single byte 0 into an id whose directory does *)
(* not exist succeeds and leaves a new, empty directory.                   *)
(***************************************************************************)
C24_ZeroFileRoundTrip ==
    [][/\ (/\ xFsCall'.op = "xContainerPackImage"
           /\ ImageDirExists(xVolume, xFsCall'.ulContainerID)
           /\ DOMAIN ImageFilesOf(xVolume, xFsCall'.ulContainerID) = {})
          => /\ xFsCall'.xReturn
             /\ lfsComponents(xFsCall'.pcImagePath) \in DOMAIN xVolume'
             /\ ImageBytes(xVolume', xFsCall'.pcImagePath) = <<0>>
       /\ (/\ xFsCall'.op = "xContainerUnpackImage"
           /\ lfsComponents(xFsCall'.pcImagePath) \in DOMAIN xVolume
           /\ ImageBytes(xVolume, xFsCall'.pcImagePath) = <<0>>
           /\ ~ImageDirExists(xVolume, xFsCall'.ulContainerID))
          => /\ xFsCall'.xReturn
             /\ ImageDirExists(xVolume', xFsCall'.ulContainerID)
             /\ lfsChildren(xVolume',
                            lfsComponents(prvContainerDir(xFsCall'.ulContainerID)))
                    = {}]_vars

(***************************************************************************)
(* C25.  The file count of an image fits its counter.  Packing a directory *)
(* with as many regular files as the counter's largest value succeeds and  *)
(* writes that value as the count; packing a directory with more regular   *)
(* files fails and writes no image, also for numbers of files at which the *)
(* counter has wrapped to a value other than 0.                            *)
(***************************************************************************)
C25_CountFitsCounter ==
    [][(/\ xFsCall'.op = "xContainerPackImage"
        /\ ImageDirExists(xVolume, xFsCall'.ulContainerID))
       => LET n == Cardinality(DOMAIN ImageFilesOf(xVolume, xFsCall'.ulContainerID))
          IN  /\ (n >= ucNumFilesModulus)
                     => (~xFsCall'.xReturn /\ xVolume' = xVolume)
              /\ (n >= 1 /\ n < ucNumFilesModulus)
                     => /\ xFsCall'.xReturn
                        /\ ImageBytes(xVolume', xFsCall'.pcImagePath)[1] = n]_vars

\* A pack has failed on a directory with twice as many files as the counter
\* has values, and the path of the image holds no file.
C25_Witness ==
    /\ xFsCall.op = "xContainerPackImage"
    /\ ~xFsCall.xReturn
    /\ Cardinality(DOMAIN ImageFilesOf(xVolume, xFsCall.ulContainerID)) =
           2 * ucNumFilesModulus
    /\ lfsComponents(xFsCall.pcImagePath) \notin DOMAIN xVolume

(***************************************************************************)
(* C30.  Window rollover.  When the tick hook or xCGroupGetStats finds     *)
(* current time - window start >= window duration for a cgroup, the        *)
(* penalty of the ended window, floor(excess * window duration / quota)    *)
(* with excess = max(0, ticks used - quota) and excess 0 for the no-limit  *)
(* quota, is added to the penalty ticks left, ticks used becomes 0 and the *)
(* window start becomes the current time; when the window has not elapsed  *)
(* ticks used and window start stay and no penalty is added.  The ticks    *)
(* used of the ended window include the tick the hook has just charged.    *)
(* The penalty field after the invocation is the sum less the ticks the    *)
(* invocation takes off after the addition: one in xCGroupGetStats, two in *)
(* the tick hook.  A quota of 0 with ticks used has no quotient and is     *)
(* left out.                                                               *)
(***************************************************************************)
C30_Excess(c) ==
    IF c.ulTicksQuota # CGROUP_NO_LIMIT /\ c.ulTicksUsed > c.ulTicksQuota
    THEN c.ulTicksUsed - c.ulTicksQuota
    ELSE 0

C30_HasQuotient(c) == C30_Excess(c) = 0 \/ c.ulTicksQuota > 0

C30_Added(c) ==
    IF C30_Excess(c) = 0
    THEN 0
    ELSE (C30_Excess(c) * c.xWindowDuration) \div c.ulTicksQuota

RECURSIVE C30_Less(_, _)
C30_Less(p, k) == IF k = 0 \/ p = 0 THEN p ELSE C30_Less(p - 1, k - 1)

C30_WindowRule(c, new, now, k) ==
    IF now - c.xWindowStartTime >= c.xWindowDuration
    THEN /\ new.ulTicksUsed = 0
         /\ new.xWindowStartTime = now
         /\ C30_HasQuotient(c)
                => new.ulPenaltyTicksLeft =
                       C30_Less(c.ulPenaltyTicksLeft + C30_Added(c), k)
    ELSE /\ new.ulTicksUsed = c.ulTicksUsed
         /\ new.xWindowStartTime = c.xWindowStartTime
         /\ new.ulPenaltyTicksLeft <= c.ulPenaltyTicksLeft

C30_Charged(xCGroup, xCurrentTask) ==
    IF prvGetCGroupFromTask(xCurrentTask) = xCGroup
    THEN [xCGroups[xCGroup] EXCEPT !.ulTicksUsed = @ + 1]
    ELSE xCGroups[xCGroup]

C30_WindowFields(c) == <<c.ulTicksUsed, c.xWindowStartTime, c.ulPenaltyTicksLeft>>

C28_PassesGate(xTask) ==
    /\ tcb[xTask].state = "alive"
    /\ xTaskParams[xTask].pc = "wrapper"
    /\ xLastCall' = xLastCall
    /\ \/ xTaskParams'[xTask].pc = "user"
       \/ tcb'[xTask].state = "deleted"

C28_GateAfterCGroupJoin ==
    [][/\ \A xTask \in Tasks :
              C28_PassesGate(xTask)
              => LET ulContainerID == xTaskParams[xTask].pxContainer
                     i == pxContainerGetByID(ulContainerID)
                 IN  /\ prvGetCGroupFromTask(xTask) # NULL
                     /\ i # NULL
                            => prvGetCGroupFromTask(xTask) = pxContainerList[i].xCGroup
                     /\ ~xTaskParams[xTask].xFreed
       /\ \A i \in ContainerIndices :
              (/\ xLastCall'.op = "Start"
               /\ xLastCall'.ulContainerID = pxContainerList[i].ulContainerID
               /\ pxContainerList[i].eState = "STOPPED"
               /\ pxContainerList'[i].eState = "ERROR")
              => /\ ~xLastCall'.xResult
                 /\ ~pxContainerList'[i].xReadySemaphore
                 /\ pxContainerList'[i].xTaskHandle = NULL
                 /\ \A xTask \in Tasks :
                        tcb[xTask].state # "alive" => tcb'[xTask].state # "alive"]_vars

(***************************************************************************)
(* C29.  The wrapper invokes the loader only after, in the task's own      *)
(* context, the IPC namespace of the container was applied, the cgroup and *)
(* the PID namespace of the task were found to be the container's, and     *)
(* chroot succeeded: at the invocation the task holds the container's IPC  *)
(* namespace, is mapped to its cgroup and bound to its PID namespace, and  *)
(* the statement before was the chroot.  When applying the IPC namespace   *)
(* or one of the two checks fails, the container becomes ERROR and the     *)
(* task deletes itself, so that it reaches neither chroot nor loader.  A   *)
(* controller the container lacks is neither applied nor checked.          *)
(***************************************************************************)
C29_OwnStep(xTask) ==
    /\ tcb[xTask].state = "alive"
    /\ xTaskParams[xTask].pc \in WrapperPositions
    /\ xLastCall' = xLastCall
    /\ xTaskParams'[xTask] # xTaskParams[xTask]

C29_InCGroup(xTask, pxContainer) ==
    pxContainer.xCGroup # NULL
        => xCGroupGetTaskGroup(xTask) = pxContainer.xCGroup

C29_InPidNamespace(xTask, pxContainer) ==
    pxContainer.xPidNamespace # NULL
        => pvTaskGetPidNamespace(tcb, xTask) = pxContainer.xPidNamespace

C29_Isolated(xTask, pxContainer) ==
    /\ pxContainer.xIpcNamespace # NULL
           => pvTaskGetIpcNamespace(xTask) = pxContainer.xIpcNamespace
    /\ C29_InCGroup(xTask, pxContainer)
    /\ C29_InPidNamespace(xTask, pxContainer)

C29_SelfDeleted(xTask, ulContainerID) ==
    /\ tcb'[xTask].state = "deleted"
    /\ xTaskParams'[xTask] = NoTaskParams
    /\ \E i \in 1..Len(pxContainerList') :
           /\ pxContainerList'[i].ulContainerID = ulContainerID
           /\ pxContainerList'[i].eState = "ERROR"

C27_DeleteCommandStep ==
    /\ \A xCaller \in Callers : pcCaller[xCaller].pc \in {"idle", "unpack"}
    /\ ulNextContainerID' = ulNextContainerID
    /\ Len(pxContainerList') < Len(pxContainerList)
    /\ xLastCall'.op = "Delete"
    /\ xLastCall'.xResult

C27_ImagesOf(vol) ==
    LET kImages == lfsComponents(pcImagesDir)
    IN  {k \in DOMAIN vol :
            Len(k) >= Len(kImages) /\ SubSeq(k, 1, Len(kImages)) = kImages}

C27_DeleteRemovesDirectory ==
    [][(C27_DeleteCommandStep /\ ImageDirExists(xVolume, xLastCall'.ulContainerID))
       => /\ ~ImageDirExists(xVolume', xLastCall'.ulContainerID)
          /\ C27_ImagesOf(xVolume') = C27_ImagesOf(xVolume)
          /\ \A k \in C27_ImagesOf(xVolume) : xVolume'[k] = xVolume[k]]_vars

(***************************************************************************)
(* C31.  Penalty decay rate.  In one invocation of the tick hook the       *)
(* penalty ticks left of an active cgroup go down by exactly one when they *)
(* are above 0 and the window of the cgroup does not roll over in that     *)
(* invocation; in an invocation in which the window rolls over they are    *)
(* not decremented, the only change being the penalty added for the        *)
(* window that ended.                                                      *)
(***************************************************************************)
C31_TickStep == xTickCount' # xTickCount

C31_RollsOver(c, now) == now - c.xWindowStartTime >= c.xWindowDuration

\* The rule of the invocations without a rollover.
C31_DecayRule(c, new) ==
    new.ulPenaltyTicksLeft =
        IF c.ulPenaltyTicksLeft > 0 THEN c.ulPenaltyTicksLeft - 1 ELSE 0

\* The rule of the invocations with a rollover.
C31_RolloverRule(c, new) ==
    C30_HasQuotient(c)
        => new.ulPenaltyTicksLeft = c.ulPenaltyTicksLeft + C30_Added(c)

C31_PenaltyDecay ==
    [][C31_TickStep
       => \A xCGroup \in CGroupSlots :
              (/\ xCGroup \in uxCGroupBitmap /\ xCGroups[xCGroup].xActive)
              => \E xCurrentTask \in AliveTasks \cup {NULL} :
                     LET c == C30_Charged(xCGroup, xCurrentTask)
                     IN  IF C31_RollsOver(c, xTickCount')
                         THEN C31_RolloverRule(c, xCGroups'[xCGroup])
                         ELSE C31_DecayRule(c, xCGroups'[xCGroup])]_vars

\* The half of C31 the tick hook keeps: without a rollover the penalty goes
\* down by exactly one.
C31_DecayWithoutRollover ==
    [][C31_TickStep
       => \A xCGroup \in CGroupSlots :
              (/\ xCGroup \in uxCGroupBitmap /\ xCGroups[xCGroup].xActive)
              => \E xCurrentTask \in AliveTasks \cup {NULL} :
                     LET c == C30_Charged(xCGroup, xCurrentTask)
                     IN  ~C31_RollsOver(c, xTickCount')
                             => C31_DecayRule(c, xCGroups'[xCGroup])]_vars

(***************************************************************************)
(* C32.  Ticks used stay within the window.  In every state between two    *)
(* invocations of the tick hook, whatever tasks were running at the ticks  *)
(* and however xCGroupAddTask, xCGroupRemoveTask, xCGroupGetStats,         *)
(* xCGroupSetCpuQuota, xCGroupCreate and xCGroupDelete interleave with     *)
(* them, the ticks used of every active cgroup are at most its window      *)
(* duration.                                                               *)
(***************************************************************************)
C32_TicksWithinWindow ==
    \A xCGroup \in uxCGroupBitmap :
        xCGroups[xCGroup].xActive
            => xCGroups[xCGroup].ulTicksUsed <= xCGroups[xCGroup].xWindowDuration

\* A cgroup whose task was running at every tick of its window so far, one
\* tick before the window ends.
C32_Witness ==
    \E xCGroup \in uxCGroupBitmap :
        /\ xCGroups[xCGroup].xActive
        /\ xCGroups[xCGroup].uxTaskCount > 0
        /\ xCGroups[xCGroup].ulTicksUsed = xCGroups[xCGroup].xWindowDuration - 1
        /\ xTickCount - xCGroups[xCGroup].xWindowStartTime
               = xCGroups[xCGroup].xWindowDuration - 1

(***************************************************************************)
(* C33.  Recovery from a penalty.  A cgroup with a finite CPU quota above  *)
(* 0 that has penalty ticks left, and whose tasks are not run at a tick    *)
(* while prvCGroupCanTaskRun refuses them, comes under continued ticks to  *)
(* a state with no penalty ticks left in which prvCGroupCanTaskRun admits  *)
(* its tasks again, unless a caller deletes the cgroup before.             *)
(***************************************************************************)
C33_Limited(xCGroup) ==
    /\ xCGroup \in uxCGroupBitmap
    /\ xCGroups[xCGroup].xActive
    /\ xCGroups[xCGroup].ulTicksQuota # CGROUP_NO_LIMIT
    /\ xCGroups[xCGroup].ulTicksQuota > 0

C33_Penalised(xCGroup) ==
    /\ C33_Limited(xCGroup)
    /\ xCGroups[xCGroup].ulPenaltyTicksLeft > 0

\* prvCGroupCanTaskRun returns true for the tasks of the cgroup, and would
\* for a task that joins it.
C33_Admitted(xCGroup) ==
    /\ C33_Limited(xCGroup)
    /\ xCGroups[xCGroup].ulPenaltyTicksLeft = 0
    /\ xCGroups[xCGroup].ulTicksUsed < xCGroups[xCGroup].ulTicksQuota
    /\ \A xTask \in Tasks :
           prvGetCGroupFromTask(xTask) = xCGroup => prvCGroupCanTaskRun(xTask)

C33_Recovery ==
    \A xCGroup \in CGroupSlots :
        C33_Penalised(xCGroup) ~> (C33_Admitted(xCGroup) \/ ~C33_Limited(xCGroup))

\* A cgroup with a task that has several penalty ticks left and has used
\* its quota up.
C33_Witness ==
    \E xCGroup \in CGroupSlots :
        /\ C33_Penalised(xCGroup)
        /\ xCGroups[xCGroup].ulPenaltyTicksLeft >= WindowDuration
        /\ xCGroups[xCGroup].ulTicksUsed >= xCGroups[xCGroup].ulTicksQuota
        /\ xCGroups[xCGroup].uxTaskCount > 0

(***************************************************************************)
(* C34.  Cleanup of a failed unpack.  When xContainerUnpackImage is called *)
(* for an id whose directory does not exist and returns failure, whatever  *)
(* the point of the failure (image not opened, short read of the count, a  *)
(* size, a name or a payload, allocation failure, output file not opened   *)
(* or not written), the directory /var/container/<id> does not exist when  *)
(* the call returns.                                                       *)
(***************************************************************************)
C34_FailedUnpack ==
    /\ xFsCall'.op = "xContainerUnpackImage"
    /\ ~xFsCall'.xReturn
    /\ ~ImageDirExists(xVolume, xFsCall'.ulContainerID)

C34_FailedUnpackRemovesDir ==
    [][C34_FailedUnpack => ~ImageDirExists(xVolume', xFsCall'.ulContainerID)]_vars

\* The part of C34 the code keeps: no directory is left behind when the
\* image file cannot be opened.
C34_MissingImageRemovesDir ==
    [][(C34_FailedUnpack /\ lfsComponents(xFsCall'.pcImagePath) \notin DOMAIN xVolume)
       => ~ImageDirExists(xVolume', xFsCall'.ulContainerID)]_vars

(***************************************************************************)
(* C35.  Concurrent creates.  When two tasks call                          *)
(* xContainerCreateWithLimits concurrently and can be preempted at any     *)
(* instruction, the calls that succeed give their containers distinct ids  *)
(* and both containers are in the list afterwards: no two listed           *)
(* containers carry the same id, and each finished call has put its        *)
(* container at the head of the list.                                      *)
(***************************************************************************)
C35_DistinctIds(list) ==
    \A i, j \in 1..Len(list) :
        i # j => list[i].ulContainerID # list[j].ulContainerID

C35_CreateReturns(xCaller) ==
    /\ pcCaller[xCaller].pc = "createStored"
    /\ pcCaller'[xCaller].pc = "idle"

C35_ConcurrentCreates ==
    [][\A xCaller \in Callers :
          C35_CreateReturns(xCaller)
          => /\ Len(pxContainerList') = Len(pxContainerList) + 1
             /\ pxContainerList'[1].ulContainerID = pcCaller[xCaller].ulContainerID
             /\ SubSeq(pxContainerList', 2, Len(pxContainerList')) = pxContainerList
             /\ C35_DistinctIds(pxContainerList')]_vars

\* The part of C35 the code keeps: a finished call has put its container at
\* the head of the list and has left the other containers in it.
C35_BothListed ==
    [][\A xCaller \in Callers :
          C35_CreateReturns(xCaller)
          => /\ Len(pxContainerList') = Len(pxContainerList) + 1
             /\ pxContainerList'[1].ulContainerID = pcCaller[xCaller].ulContainerID
             /\ SubSeq(pxContainerList', 2, Len(pxContainerList')) = pxContainerList]_vars

(***************************************************************************)
(* C36.  Concurrent path rewriting.  When two tasks with different root    *)
(* paths issue path-bearing file-system operations concurrently, each      *)
(* operation reaches littlefs with the path rewritten under the root of    *)
(* the task that issued it, also when the task was preempted between the   *)
(* building of the path and the call.                                      *)
(***************************************************************************)
C36_CallStep(xCaller) ==
    /\ pcCaller[xCaller].pc = "built"
    /\ pcCaller'[xCaller].pc = "idle"

C36_OwnPath(xCaller) ==
    fs_build_full_path(pcCaller[xCaller].root_path, pcCaller[xCaller].path,
                       configMAX_PATH_LEN)

C36_OwnRootPath ==
    [][\A xCaller \in Callers :
          C36_CallStep(xCaller) => xFsCall'.full_path = C36_OwnPath(xCaller)]_vars

(***************************************************************************)
(* C37.  Concurrent creates on one controller.  Under arbitrary            *)
(* preemption a create that succeeds returns a slot that was not in use    *)
(* and leaves exactly one more bit set in the bitmap of its controller:    *)
(* xPidNamespaceCreate, xIpcNamespaceCreate and xCGroupCreate.             *)
(***************************************************************************)
C37_OneMoreBit(bitmap, new, uxSlot) ==
    /\ uxSlot \notin bitmap
    /\ new = bitmap \cup {uxSlot}
    /\ Cardinality(new) = Cardinality(bitmap) + 1

C37_PidCreateReturns(xCaller) ==
    /\ pcCaller[xCaller].pc = "pidSlotFound"
    /\ pcCaller'[xCaller].pc = "idle"

C37_DistinctSlots ==
    [][/\ \A xCaller \in Callers :
              C37_PidCreateReturns(xCaller)
              => C37_OneMoreBit(uxPidNamespaceBitmap, uxPidNamespaceBitmap',
                                pcCaller[xCaller].uxSlot)
       /\ IpcCreate /\ xIpcNamespaceCreateRet # NULL
              => C37_OneMoreBit(uxIpcNamespaceBitmap, uxIpcNamespaceBitmap',
                                xIpcNamespaceCreateRet)
       /\ CGroupCreate /\ xCGroupCreateRet # NULL
              => C37_OneMoreBit(uxCGroupBitmap, uxCGroupBitmap',
                                xCGroupCreateRet)]_vars

\* The part of C37 the code keeps: the creates that look for their slot
\* inside the critical section.
C37_CriticalCreates ==
    [][/\ IpcCreate /\ xIpcNamespaceCreateRet # NULL
              => C37_OneMoreBit(uxIpcNamespaceBitmap, uxIpcNamespaceBitmap',
                                xIpcNamespaceCreateRet)
       /\ CGroupCreate /\ xCGroupCreateRet # NULL
              => C37_OneMoreBit(uxCGroupBitmap, uxCGroupBitmap',
                                xCGroupCreateRet)]_vars

(***************************************************************************)
(* C38.  Stop and restart.  After xContainerStop has returned pdPASS, and  *)
(* after a container task has deleted itself, the deleted task is in no    *)
(* entry of the task-to-cgroup map and the cgroup of the container has     *)
(* task count 0; the cgroup of a stopped container then takes the task of  *)
(* the next xContainerStart, whatever handle the kernel gives it.          *)
(***************************************************************************)
C38_InMap(map, xTask) == \E ux \in 1..Len(map) : map[ux].xTask = xTask

C38_Container(xTask) ==
    {i \in ContainerIndices : pxContainerList[i].xTaskHandle = xTask}

C38_Stops(i) ==
    /\ xContainerStopRet(pxContainerList[i].ulContainerID)
    /\ pxContainerGetByID(pxContainerList[i].ulContainerID) = i
    /\ xLastCall' = [op |-> "Stop",
                     ulContainerID |-> pxContainerList[i].ulContainerID,
                     xResult |-> TRUE]

C38_Exits(xTask) ==
    /\ tcb[xTask].state = "alive"
    /\ xTaskParams[xTask].pc = "user"
    /\ tcb'[xTask].state = "deleted"

C38_Left(i) ==
    /\ ~C38_InMap(xTaskCGroupMap', pxContainerList[i].xTaskHandle)
    /\ pxContainerList[i].xCGroup # NULL
       => xCGroups'[pxContainerList[i].xCGroup].uxTaskCount = 0

C38_CanJoin(i) ==
    \A xNewTask \in FreeTaskHandles :
        pxContainerList[i].xCGroup # NULL
        => xCGroupAddTaskRet(pxContainerList[i].xCGroup, xNewTask)

C38_StopLeavesCGroup ==
    [][/\ \A i \in ContainerIndices : C38_Stops(i) => C38_Left(i)
       /\ \A xTask \in Tasks :
              C38_Exits(xTask) => \A i \in C38_Container(xTask) : C38_Left(i)
       /\ \A i \in ContainerIndices :
              pxContainerList[i].eState = "STOPPED" => C38_CanJoin(i)]_vars

(***************************************************************************)
(* C40.  No division by zero in the penalty.  Whenever prvCalculatePenalty *)
(* evaluates the quotient, at the end of a window in which the cgroup used *)
(* more ticks than its quota and the quota is not the no-limit value, the  *)
(* tick quota is not 0: for the cgroups of xCGroupCreate and of            *)
(* xCGroupSetCpuQuota, a requested quota of 0 included, and with a         *)
(* scheduler that runs only the tasks prvCGroupCanTaskRun admits.          *)
(***************************************************************************)
C40_Divisor(c, now) ==
    prvWindowElapsed(c, now) /\ prvCalculatePenaltyDivides(c) => c.ulTicksQuota # 0

C40_InTick(xCurrentTask) ==
    \A xCGroup \in uxCGroupBitmap :
        xCGroups[xCGroup].xActive
        => C40_Divisor(C30_Charged(xCGroup, xCurrentTask), xTickCount')

C40_NoDivisionByZero ==
    [][/\ \A xCurrentTask \in AliveTasks \cup {NULL} :
              prvCGroupCanTaskRun(xCurrentTask) /\ TickWith(xCurrentTask)
              => C40_InTick(xCurrentTask)
       /\ \A xCGroup \in CGroupSlots :
              /\ xCGroups[xCGroup].xActive
              /\ \E d \in DivisionByZeroResults : xCGroupGetStats(xCGroup, d)
              => C40_Divisor(xCGroups[xCGroup], xTickCount)]_vars

(***************************************************************************)
(* C39.  The registry.  In every reachable state, for every active         *)
(* namespace: its object count is the number of entries with an object     *)
(* that it owns, the object ids of these entries are pairwise distinct     *)
(* and below its next object id, and the global entry count is the number  *)
(* of entries with an object; so a namespace whose object count is below   *)
(* the maximum always finds a free entry.                                  *)
(***************************************************************************)
C39_Used == {ux \in IpcEntryIdx : xIpcObjectEntries[ux].pvIpcObject # NULL}

C39_Owned(xNamespace) ==
    {ux \in C39_Used : xIpcObjectEntries[ux].xNamespace = xNamespace}

C39_Active == {xNamespace \in IpcSlots : xIpcNamespaces[xNamespace].xActive}

C39_RegistryInvariant ==
    /\ uxObjectEntryCount = Cardinality(C39_Used)
    /\ \A xNamespace \in C39_Active :
          /\ xIpcNamespaces[xNamespace].uxObjectCount =
                 Cardinality(C39_Owned(xNamespace))
          /\ \A ux \in C39_Owned(xNamespace) :
                 /\ xIpcObjectEntries[ux].ulObjectId <
                        xIpcNamespaces[xNamespace].ulNextObjectId
                 /\ \A uy \in C39_Owned(xNamespace) \ {ux} :
                        xIpcObjectEntries[ux].ulObjectId #
                            xIpcObjectEntries[uy].ulObjectId
          /\ xIpcNamespaces[xNamespace].uxObjectCount < uxMaxObjectsPerNamespace
             => prvFindFreeObjectEntry # NULL

========================================================================
